---- MODULE Spec2Model ----
(***************************************************************************)
(* The roster state machine of event_bot.py: the store of events           *)
(* (context.bot_data["events"]), the id counter                            *)
(* (context.bot_data["event_counter"]), the edit conversation, and the     *)
(* handlers that change them.                                              *)
(*                                                                         *)
(* Dispatch: main() builds the Application without concurrent_updates and  *)
(* registers every handler blocking (event_bot.py:1057-1112), so one       *)
(* handler runs to its end before the next update is taken: each handler   *)
(* is one action.  What a handler sends (notices, the announcement edit,   *)
(* replies) is recorded, in the order it is sent, in `out`.                *)
(*                                                                         *)
(* A participant entry {id, name, username} is identified by its id in     *)
(* every comparison the handlers make; the model keeps the id.             *)
(***************************************************************************)
EXTENDS Integers, Sequences, FiniteSets, TLC

\* ------------------------------------------------------------- bounds
MaxUser == 3          \* actor ids are 1..MaxUser
MaxCapacity == 3      \* capacities typed in are 0..MaxCapacity
MaxEventId == 2       \* ids issued in the specification of the store

Users == 1..MaxUser

\* The event ids that commands and buttons address; an event is created only
\* while the next id is one of them.
EventIds == {1}

\* The ids addressed in the specification of the store, never issued ones
\* included; the actors that press buttons there.
StoreIds == 1..MaxEventId
StorePressers == {2}

\* ADMIN_IDS, read from the environment at import time.
ADMIN_IDS == {1}

\* message_id of the announcement, as the channel returns it on publication.
ChannelMessageIds == {7}

\* What a send_message to a promoted actor can do: succeed, raise
\* BadRequest/Forbidden, or raise another TelegramError (TimedOut, NetworkError).
NotifyOutcomes == {"ok", "forbidden", "error"}

\* Texts typed for a capacity: a numeral, a word, or no text (a photo).
CapacityTexts ==
    [kind : {"int"}, val : 0..MaxCapacity] \cup {[kind |-> "word", val |-> 0], [kind |-> "empty", val |-> 0]}

\* Field numbers typed in the edit conversation: the capacity, and a number
\* outside 1..6.
FieldChoices == {3, 9}

VARIABLES
    events,          \* context.bot_data["events"]: event id -> event
    event_counter,   \* context.bot_data["event_counter"]
    user_data,       \* context.user_data of each user: edit_event_id, edit_field (0 = absent)
    edit_conv,       \* state of edit_event_conversation for each user
    create_conv,     \* state of create_event_conversation for each user
    new_event,       \* context.user_data["new_event"] of each user
    out,             \* what the last handler sent, in order
    last,            \* history: the last handler, its arguments and the roster it found
    hist,            \* history: who entered each waitlist before whom
    tasks,           \* the handler coroutine of each user's update, where it is suspended
    trip             \* history: the roster before a lowering of the capacity, and its way back

vars ==
    <<events, event_counter, user_data, edit_conv, create_conv, new_event, out, last, hist, tasks,
      trip>>

\* ------------------------------------------------------------ helpers
Range(s) == {s[i] : i \in 1..Len(s)}

Has(s, uid) == \E i \in 1..Len(s) : s[i] = uid

\* [u for u in lst if u["id"] != uid]
Without(s, uid) == SelectSeq(s, LAMBDA x : x # uid)

Fx(kind, arg, text) == [kind |-> kind, arg |-> arg, text |-> text]

Kinds(fx, kind) == SelectSeq(fx, LAMBDA f : f.kind = kind)

NoRoster == [capacity |-> 0, joined |-> <<>>, waitlist |-> <<>>]

RosterOf(event) ==
    [capacity |-> event.capacity, joined |-> event.joined, waitlist |-> event.waitlist]

\* The event dict as the create handlers build it: the texts as typed, the
\* lists empty.  photo_id "none" is None.
NewEventDict(event_id, user, capacity, message_id, photo_id) ==
    [id |-> event_id, title |-> "typed", date |-> "typed", location |-> "typed",
     description |-> "typed", photo_id |-> photo_id, capacity |-> capacity,
     creator_id |-> user, message_id |-> message_id, joined |-> <<>>, waitlist |-> <<>>]

\* No handler of the user is in flight.
NoTask ==
    [h |-> "none", pc |-> "none", eid |-> 0, uid |-> 0, action |-> "none", capacity |-> 0,
     loops |-> FALSE, response |-> "none", promoted |-> 0, seen |-> <<>>,
     target |-> 0, pre |-> NewEventDict(0, 0, 0, 0, "none"),
     event |-> NewEventDict(0, 0, 0, 0, "none"), rendered |-> <<>>]

\* No lowering of the capacity is remembered.
NoTrip == [eid |-> 0, n |-> 0, pre |-> NoRoster, back |-> FALSE]

NoUserData == [edit_event_id |-> 0, edit_field |-> 0]

\* user_data without the key new_event; capacity 0: the key capacity not set.
NoNewEvent == [has |-> FALSE, capacity |-> 0]

NoHist == [entered |-> {}, queued |-> {}, before |-> {}, qbefore |-> {}]

\* int(text): the value of a numeral, ValueError otherwise.
ParseInt(text) ==
    IF text.kind = "int" THEN [ok |-> TRUE, val |-> text.val] ELSE [ok |-> FALSE, val |-> 0]

\* A slip: < for <=, a capacity of 0 is let through.
BadCapacityNegativeOnly(text) == ~ParseInt(text).ok \/ ParseInt(text).val < 0

\* capacity = int(text); if capacity <= 0: raise ValueError -- the test every
\* handler that takes a capacity makes.
BadCapacity(text) == ~ParseInt(text).ok \/ ParseInt(text).val <= 0

\* A slip: the test of the rights is left out.
is_admin_anyone(user_id, has_event, event) == TRUE

is_admin(user_id, has_event, event) ==
    \/ user_id \in ADMIN_IDS
    \/ has_event /\ event.creator_id = user_id

\* A change: remove_participant asks is_admin(user.id, event) as delete,
\* edit and export do.
may_remove_creator_too(user_id, has_event, event) ==
    is_admin(user_id, has_event, event)

\* if user.id not in ADMIN_IDS, the test of remove_participant_command, made
\* before the event is looked up.
may_remove(user_id, has_event, event) == user_id \in ADMIN_IDS

\* ------------------------------------------------- announcement update
\* The text of the announcement: the counts, the entries of joined and the
\* entries of waitlist, each list in its order.
format_event_message(event) ==
    <<Fx("text", Len(event.joined), "joined_count"), Fx("text", event.capacity, "capacity")>>
    \o [i \in 1..Len(event.joined) |-> Fx("text", event.joined[i], "joined")]
    \o <<Fx("text", Len(event.waitlist), "wait_count")>>
    \o [i \in 1..Len(event.waitlist) |-> Fx("text", event.waitlist[i], "waitlist")]

\* A slip: > for >=, a full event still offers a confirmed place.
make_event_keyboard_full_is_open(event_id, event) ==
    IF event.capacity <= 0 THEN <<Fx("button", 0, "closed")>>
    ELSE IF Len(event.joined) > event.capacity
    THEN <<Fx("button", Len(event.waitlist), "join_waitlist")>>
    ELSE <<Fx("button", Len(event.joined), "join"), Fx("button_of", event.capacity, "join")>>

\* The join control under the announcement: closed (callback data no_join),
\* "join the waitlist (wait_len)" or "join (spots_filled/capacity)".
make_event_keyboard(event_id, event) ==
    IF event.capacity <= 0 THEN <<Fx("button", 0, "closed")>>
    ELSE IF Len(event.joined) >= event.capacity
    THEN <<Fx("button", Len(event.waitlist), "join_waitlist")>>
    ELSE <<Fx("button", Len(event.joined), "join"), Fx("button_of", event.capacity, "join")>>

\* The edit of the announcement, text and keyboard made from the event
\* passed in; when it fails, a warning goes to the chat the handler answers
\* in (a user's chat, never the channel).
update_event_message(event_id, event, chat_id_for_reply, edit_ok) ==
    IF event.message_id = 0 THEN <<>>
    ELSE IF edit_ok
    THEN <<Fx("announce", event_id, "ok")>> \o format_event_message(event)
         \o make_event_keyboard(event_id, event)
    ELSE <<Fx("announce", event_id, "failed"), Fx("warn", chat_id_for_reply, "announce_failed")>>

\* ------------------------------------------------------ promotion loop
\* while len(joined) < capacity and waitlist: pop(0), append, send the notice.
\* fate is what the successive sends do, one outcome for each iteration; an
\* outcome outside `caught` leaves the loop and the handler.
\* A slip: the newest waiter is taken, waitlist.pop().
PopNewest(waitlist) ==
    [promoted |-> waitlist[Len(waitlist)], rest |-> SubSeq(waitlist, 1, Len(waitlist) - 1)]

\* A slip: an if for the while, at most one waiter is promoted.
PromoteOnce(joined, waitlist, capacity, fate, caught) ==
    IF Len(joined) < capacity /\ waitlist # <<>>
    THEN [joined |-> Append(joined, Head(waitlist)), waitlist |-> Tail(waitlist),
          notices |-> <<Fx("notify", Head(waitlist), Head(fate))>>,
          raised |-> Head(fate) \notin caught]
    ELSE [joined |-> joined, waitlist |-> waitlist, notices |-> <<>>, raised |-> FALSE]

\* A slip: the notice goes to the head of joined, chat_id=joined[0]["id"].
PromotionNoticeToHeadOfJoined(promoted, joined, outcome) ==
    Fx("notify", Head(joined \o <<promoted>>), outcome)

\* send_message(chat_id=promoted["id"], ...), with what the send did.
PromotionNotice(promoted, joined, outcome) == Fx("notify", promoted, outcome)

\* A slip: the head of the waitlist is appended to joined and not popped.
RECURSIVE PromoteLoopNoPop(_, _, _, _, _)
PromoteLoopNoPop(joined, waitlist, capacity, fate, caught) ==
    IF Len(joined) < capacity /\ waitlist # <<>>
    THEN LET r == PromoteLoopNoPop(Append(joined, Head(waitlist)), waitlist, capacity,
                                   fate, caught)
         IN [r EXCEPT !.notices = <<Fx("notify", Head(waitlist), "ok")>> \o r.notices]
    ELSE [joined |-> joined, waitlist |-> waitlist, notices |-> <<>>, raised |-> FALSE]

\* promoted = waitlist.pop(0)
Pop0(waitlist) == [promoted |-> Head(waitlist), rest |-> Tail(waitlist)]

RECURSIVE PromoteLoop(_, _, _, _, _)
PromoteLoop(joined, waitlist, capacity, fate, caught) ==
    IF Len(joined) < capacity /\ waitlist # <<>>
    THEN LET promoted == Pop0(waitlist).promoted
             rest == Pop0(waitlist).rest
             notice == PromotionNotice(promoted, joined, Head(fate))
         IN IF Head(fate) \in caught
            THEN LET r == PromoteLoop(Append(joined, promoted), rest, capacity,
                                      Tail(fate), caught)
                 IN [r EXCEPT !.notices = <<notice>> \o r.notices]
            ELSE [joined |-> Append(joined, promoted), waitlist |-> rest,
                  notices |-> <<notice>>, raised |-> TRUE]
    ELSE [joined |-> joined, waitlist |-> waitlist, notices |-> <<>>, raised |-> FALSE]

NoPromotion(joined, waitlist) ==
    [joined |-> joined, waitlist |-> waitlist, notices |-> <<>>, raised |-> FALSE]

\* except (BadRequest, Forbidden) in button_handler; except Exception elsewhere.
ButtonCaught == {"ok", "forbidden"}
AllCaught == {"ok", "forbidden", "error"}

\* --------------------------------------------------- button_handler
\* A slip: the presser is looked for in the waitlist only.
RemovePresserWaitlistOnly(event, uid) ==
    [event EXCEPT !.waitlist = Without(event.waitlist, uid)]

\* A slip: a waiting presser keeps the old place.
RemovePresserJoinedOnly(event, uid) ==
    [event EXCEPT !.joined = Without(event.joined, uid)]

\* A slip: the presser is not taken out before the new action.
RemovePresserNever(event, uid) == event

\* Step 1: the presser is taken out of both lists if found in either.
RemovePresser(event, uid) ==
    IF Has(event.joined, uid) \/ Has(event.waitlist, uid)
    THEN [event EXCEPT !.joined = Without(event.joined, uid),
                       !.waitlist = Without(event.waitlist, uid)]
    ELSE event

\* A slip: <= for <, one more than the capacity is let in.
JoinPlaceOneMore(event, uid) ==
    IF Len(event.joined) <= event.capacity
    THEN [event EXCEPT !.joined = Append(event.joined, uid)]
    ELSE [event EXCEPT !.waitlist = Append(event.waitlist, uid)]

\* A slip: waitlist.insert(0, ue) for waitlist.append(ue).
JoinPlaceFront(event, uid) ==
    IF Len(event.joined) < event.capacity
    THEN [event EXCEPT !.joined = Append(event.joined, uid)]
    ELSE [event EXCEPT !.waitlist = <<uid>> \o event.waitlist]

\* Step 2, action == "join".
JoinPlace(event, uid) ==
    IF Len(event.joined) < event.capacity
    THEN [event EXCEPT !.joined = Append(event.joined, uid)]
    ELSE [event EXCEPT !.waitlist = Append(event.waitlist, uid)]

JoinResponse(event) ==
    IF Len(event.joined) < event.capacity THEN "confirmed" ELSE "waitlisted"

\* A slip: the promotion of leave does not ask whether the presser was in
\* joined.
LeavePromoteAlways(event, is_joined, fate) ==
    PromoteLoop(event.joined, event.waitlist, event.capacity,
                [i \in 1..Len(event.waitlist) |-> "ok"], ButtonCaught)

\* A slip: the leave of a confirmed actor promotes nobody.
LeavePromoteNobody(event, is_joined, fate) == NoPromotion(event.joined, event.waitlist)

\* Step 3: the promotion of leave.
LeavePromote(event, is_joined, fate) ==
    IF is_joined
    THEN PromoteLoop(event.joined, event.waitlist, event.capacity, fate, ButtonCaught)
    ELSE NoPromotion(event.joined, event.waitlist)

\* A slip: a failed edit of the announcement leaves update_event_message as an
\* exception; the press is undone and not confirmed.
ButtonOutcomeUndoneOnFailure(event, event_id, action, uid, fate, edit_ok) ==
    LET is_joined == Has(event.joined, uid)
        e1 == RemovePresser(event, uid)
        e2 == IF action = "join" THEN JoinPlace(e1, uid) ELSE e1
        response == IF action = "join" THEN JoinResponse(e1) ELSE "left"
        p == IF action = "leave" THEN LeavePromote(e2, is_joined, fate)
             ELSE NoPromotion(e2.joined, e2.waitlist)
        e3 == [e2 EXCEPT !.joined = p.joined, !.waitlist = p.waitlist]
    IN  IF p.raised
        THEN [event |-> e3, fx |-> p.notices \o <<Fx("error_handler", uid, "exception")>>]
        ELSE IF e3.message_id # 0 /\ ~edit_ok
        THEN [event |-> event,
              fx |-> p.notices \o update_event_message(event_id, e3, uid, edit_ok)
                     \o <<Fx("error_handler", uid, "exception")>>]
        ELSE [event |-> e3,
              fx |-> p.notices \o <<Fx("put", event_id, "ok")>>
                     \o update_event_message(event_id, e3, uid, edit_ok)
                     \o <<Fx("reply", uid, response)>>]

\* Steps 1 to 3, persist, the announcement update and the confirmation.
ButtonOutcome(event, event_id, action, uid, fate, edit_ok) ==
    LET is_joined == Has(event.joined, uid)
        e1 == RemovePresser(event, uid)
        e2 == IF action = "join" THEN JoinPlace(e1, uid) ELSE e1
        response == IF action = "join" THEN JoinResponse(e1) ELSE "left"
        p == IF action = "leave" THEN LeavePromote(e2, is_joined, fate)
             ELSE NoPromotion(e2.joined, e2.waitlist)
        e3 == [e2 EXCEPT !.joined = p.joined, !.waitlist = p.waitlist]
    IN  IF p.raised
        THEN [event |-> e3, fx |-> p.notices \o <<Fx("error_handler", uid, "exception")>>]
        ELSE [event |-> e3,
              fx |-> p.notices \o <<Fx("put", event_id, "ok")>>
                     \o update_event_message(event_id, e3, uid, edit_ok)
                     \o <<Fx("reply", uid, response)>>]

\* A slip: the leave of an actor who is in neither list does not return.
ButtonResultNoReturn(event, event_id, action, uid, fate, edit_ok) ==
    ButtonOutcome(event, event_id, action, uid, fate, edit_ok)

\* The handler from the lookup of the presser on; the leave of an actor who
\* is in neither list returns before persist and the announcement update.
ButtonResult(event, event_id, action, uid, fate, edit_ok) ==
    IF action = "leave" /\ ~(Has(event.joined, uid) \/ Has(event.waitlist, uid))
    THEN [event |-> event, fx |-> <<Fx("alert", uid, "not_present")>>]
    ELSE ButtonOutcome(event, event_id, action, uid, fate, edit_ok)

\* ------------------------------------------- remove_participant_command
RemoveResult(event, event_id, target, chat_id, fate, edit_ok) ==
    LET in_joined == Len(Without(event.joined, target)) < Len(event.joined)
        in_waitlist == Len(Without(event.waitlist, target)) < Len(event.waitlist)
        e1 == [event EXCEPT !.joined = Without(event.joined, target),
                            !.waitlist = Without(event.waitlist, target)]
        p == IF in_joined
             THEN PromoteLoop(e1.joined, e1.waitlist, e1.capacity, fate, AllCaught)
             ELSE NoPromotion(e1.joined, e1.waitlist)
        e2 == [e1 EXCEPT !.joined = p.joined, !.waitlist = p.waitlist]
    IN  IF in_joined \/ in_waitlist
        THEN [event |-> e2,
              fx |-> p.notices \o <<Fx("put", event_id, "ok")>>
                     \o update_event_message(event_id, e2, chat_id, edit_ok)
                     \o <<Fx("reply", chat_id, "removed")>>]
        ELSE [event |-> e1, fx |-> <<Fx("reply", chat_id, "not_in_lists")>>]

\* ------------------------------------------- edit_new_value, field 3
\* A slip: the overflow is put behind the waitlist.
OverflowToEnd(event, capacity) ==
    [event EXCEPT !.joined = SubSeq(event.joined, 1, capacity),
                  !.waitlist = event.waitlist
                                 \o SubSeq(event.joined, capacity + 1, Len(event.joined))]

\* A slip: joined is cut and the tail is not kept.
OverflowDropped(event, capacity) ==
    [event EXCEPT !.joined = SubSeq(event.joined, 1, capacity)]

\* A slip: the tail goes to the front of the waitlist last first.
OverflowReversed(event, capacity) ==
    LET tail == SubSeq(event.joined, capacity + 1, Len(event.joined))
    IN  [event EXCEPT !.joined = SubSeq(event.joined, 1, capacity),
                      !.waitlist = [i \in 1..Len(tail) |-> tail[Len(tail) + 1 - i]]
                                     \o event.waitlist]

\* len(joined) > capacity: the tail goes to the front of the waitlist.
Overflow(event, capacity) ==
    [event EXCEPT !.joined = SubSeq(event.joined, 1, capacity),
                  !.waitlist = SubSeq(event.joined, capacity + 1, Len(event.joined))
                                 \o event.waitlist]

\* A slip: the capacity is raised and nobody is promoted.
RaisePromoteNobody(event, capacity, fate) ==
    [joined |-> event.joined, waitlist |-> event.waitlist, notices |-> <<>>, raised |-> FALSE]

\* A slip: an if for the while, one slot is filled.
RaisePromoteOne(event, capacity, fate) ==
    PromoteLoop(event.joined, event.waitlist, Len(event.joined) + 1, fate, AllCaught)

\* len(joined) < capacity: promotion from the waitlist.
RaisePromote(event, capacity, fate) ==
    PromoteLoop(event.joined, event.waitlist, capacity, fate, AllCaught)

CapacityResult(event, event_id, capacity, chat_id, fate, edit_ok) ==
    LET e1 == [event EXCEPT !.capacity = capacity]
        p == IF Len(e1.joined) > capacity THEN NoPromotion(e1.joined, e1.waitlist)
             ELSE IF Len(e1.joined) < capacity THEN RaisePromote(e1, capacity, fate)
             ELSE NoPromotion(e1.joined, e1.waitlist)
        e2 == IF Len(e1.joined) > capacity THEN Overflow(e1, capacity)
              ELSE [e1 EXCEPT !.joined = p.joined, !.waitlist = p.waitlist]
    IN  [event |-> e2,
         fx |-> p.notices
                \o (IF Len(p.notices) > 0 THEN <<Fx("reply", chat_id, "promoted")>> ELSE <<>>)
                \o update_event_message(event_id, e2, chat_id, edit_ok)
                \o <<Fx("put", event_id, "ok"), Fx("reply", chat_id, "updated")>>]

\* ---------------------------------------------------------- histories
Record(op, event_id, uid, arg, pre) ==
    [op |-> op, eid |-> event_id, uid |-> uid, arg |-> arg, pre |-> pre]

\* Who entered the waitlist in a step from roster pre to roster post, and
\* before whom.  An actor who leaves, presses join again or is removed starts
\* afresh.  entered/before count every way into the waitlist, queued/qbefore
\* the join presses.
HistStep(h, pre, post, how, uid) ==
    LET reset == IF how \in {"join", "leave", "remove"} THEN {uid} ELSE {}
        keep(S) == S \ reset
        keepPairs(R) == {p \in R : p[1] \notin reset /\ p[2] \notin reset}
        came == (Range(post.waitlist) \ Range(pre.waitlist))
                  \cup (IF how = "join" THEN Range(post.waitlist) \cap {uid} ELSE {})
        pairs(S) == {p \in S \X came : p[1] # p[2]}
    IN  [entered |-> keep(h.entered) \cup came,
         before |-> keepPairs(h.before) \cup pairs(keep(h.entered)),
         queued |-> IF how = "join" THEN keep(h.queued) \cup came ELSE keep(h.queued),
         qbefore |-> IF how = "join" THEN keepPairs(h.qbefore) \cup pairs(keep(h.queued))
                     ELSE keepPairs(h.qbefore)]

\* hist after the step that `last'` describes.
TrackHist ==
    /\ hist' = [e \in EventIds |->
               IF e \notin DOMAIN events' THEN NoHist
               ELSE IF e \notin DOMAIN events \/ e # last'.eid THEN hist[e]
               ELSE HistStep(hist[e], events[e], events'[e], last'.op,
                             IF last'.op = "remove" THEN last'.arg ELSE last'.uid)]
    /\ UNCHANGED <<tasks, trip>>

\* The handlers of the edit conversation that do not touch an event.
TalkOps == {"edit_event", "edit_select", "edit_rejected", "cancel"}

\* trip after the step that `last'` describes: an accepted capacity edit
\* below the capacity opens a trip with the roster it found; the next handler
\* that touches an event closes it, and it is `back` when that handler is the
\* edit of the same event to the capacity the trip started from.
TrackTrip ==
    trip' = IF last'.op = "capacity" /\ last'.arg < last'.pre.capacity
            THEN [eid |-> last'.eid, n |-> last'.arg, pre |-> last'.pre, back |-> FALSE]
            ELSE IF /\ last'.op = "capacity"
                    /\ ~trip.back
                    /\ trip.eid = last'.eid
                    /\ last'.arg = trip.pre.capacity
            THEN [trip EXCEPT !.back = TRUE]
            ELSE IF last'.op \in TalkOps THEN trip
            ELSE NoTrip

\* ------------------------------------------------------- the id counter
\* A slip: the id is taken from the number of stored events.
NewEventIdByCount(counter, store) == Cardinality(DOMAIN store) + 1

\* event_counter = bot_data.get("event_counter", 0) + 1
NewEventId(counter, store) == counter + 1

\* ------------------------------------------------- the store of a create
\* A slip: the event is stored before the announcement is sent, and stays
\* stored without a message_id when the send fails.
StoreNewBeforeSend(store, event_id, event, send_ok) ==
    [e \in DOMAIN store \cup {event_id} |->
        IF e # event_id THEN store[e]
        ELSE IF send_ok THEN event ELSE [event EXCEPT !.message_id = 0]]

\* event["message_id"] = sent.message_id; bot_data["events"][event_id] =
\* event -- reached only when the send of the announcement did not raise.
StoreNew(store, event_id, event, send_ok) ==
    IF send_ok
    THEN [e \in DOMAIN store \cup {event_id} |-> IF e = event_id THEN event ELSE store[e]]
    ELSE store

\* ---------------------------------------------------------------- Init
Init ==
    /\ events = [e \in {} |-> NoRoster]
    /\ event_counter = 0
    /\ user_data = [u \in Users |-> NoUserData]
    /\ edit_conv = [u \in Users |-> "END"]
    /\ create_conv = [u \in Users |-> "END"]
    /\ new_event = [u \in Users |-> NoNewEvent]
    /\ out = <<>>
    /\ last = Record("start", 0, 0, 0, NoRoster)
    /\ hist = [e \in EventIds |-> NoHist]
    /\ tasks = [u \in Users |-> NoTask]
    /\ trip = NoTrip

\* ------------------------------------------------------------- actions
\* /create_event Title | Date | Capacity ...
create_event_command_quick(user, text, message_id, send_ok) ==
    /\ UNCHANGED <<user_data, edit_conv, create_conv, new_event>>
    /\ IF ~is_admin(user, FALSE, NoRoster)
       THEN /\ out' = <<Fx("reply", user, "no_rights")>>
            /\ last' = Record("create_denied", 0, user, 0, NoRoster)
            /\ UNCHANGED <<events, event_counter>>
       ELSE IF BadCapacity(text)
       THEN /\ out' = <<Fx("reply", user, "bad_capacity")>>
            /\ last' = Record("create_rejected", 0, user, 0, NoRoster)
            /\ UNCHANGED <<events, event_counter>>
       ELSE LET event_id == NewEventId(event_counter, events)
                event == NewEventDict(event_id, user, ParseInt(text).val, message_id, "none")
            IN  /\ event_counter' = event_id
                /\ last' = Record("create", event_id, user, event.capacity, NoRoster)
                /\ events' = StoreNew(events, event_id, event, send_ok)
                /\ IF send_ok
                   THEN /\ out' = <<Fx("publish", event_id, "ok")>> \o format_event_message(event)
                          \o make_event_keyboard(event_id, event)
                          \o <<Fx("put", event_id, "ok"),
                                    Fx("reply", user, "created")>>
                   ELSE /\ out' = <<Fx("publish", event_id, "failed"),
                                    Fx("reply", user, "publish_failed")>>

\* A slip: events.setdefault(event_id, ...) for events.get(event_id): a press
\* addressed to an id that is not stored makes an event of it.
button_handler_setdefault(action, event_id, uid, fate, edit_ok) ==
    LET blank == NewEventDict(event_id, uid, 1, 0, "none")
        store == [e \in DOMAIN events \cup {event_id} |->
                    IF e \in DOMAIN events THEN events[e] ELSE blank]
        r == ButtonResult(store[event_id], event_id, action, uid, fate, edit_ok)
    IN  /\ UNCHANGED <<event_counter, user_data, edit_conv, create_conv, new_event>>
        /\ events' = [store EXCEPT ![event_id] = r.event]
        /\ out' = r.fx
        /\ last' = Record(action, event_id, uid, 0,
                          IF event_id \in DOMAIN events THEN RosterOf(events[event_id])
                          ELSE NoRoster)

\* A press of the join or the leave button of event_id by uid.
button_handler(action, event_id, uid, fate, edit_ok) ==
    /\ UNCHANGED <<event_counter, user_data, edit_conv, create_conv, new_event>>
    /\ IF action = "no_join"
       THEN /\ out' = <<Fx("alert", uid, "closed")>>
            /\ last' = Record(action, 0, uid, 0, NoRoster)
            /\ UNCHANGED events
       ELSE IF event_id \notin DOMAIN events
       THEN /\ out' = <<Fx("alert", uid, "not_found")>>
            /\ last' = Record(action, event_id, uid, 0, NoRoster)
            /\ UNCHANGED events
       ELSE LET event == events[event_id]
                r == ButtonResult(event, event_id, action, uid, fate, edit_ok)
            IN  /\ events' = [events EXCEPT ![event_id] = r.event]
                /\ out' = r.fx
                /\ last' = Record(action, event_id, uid, 0, RosterOf(event))

\* /remove_participant <event_id> <user_id>
remove_participant_command(user, event_id, target, fate, edit_ok) ==
    /\ UNCHANGED <<event_counter, user_data, edit_conv, create_conv, new_event>>
    /\ IF ~may_remove(user, event_id \in DOMAIN events,
                      IF event_id \in DOMAIN events THEN events[event_id] ELSE NoRoster)
       THEN /\ out' = <<Fx("reply", user, "no_rights")>>
            /\ last' = Record("remove_denied", event_id, user, 0, NoRoster)
            /\ UNCHANGED events
       ELSE IF event_id \notin DOMAIN events
       THEN /\ out' = <<Fx("reply", user, "not_found")>>
            /\ last' = Record("remove", event_id, user, target, NoRoster)
            /\ UNCHANGED events
       ELSE LET event == events[event_id]
                r == RemoveResult(event, event_id, target, user, fate, edit_ok)
            IN  /\ events' = [events EXCEPT ![event_id] = r.event]
                /\ out' = r.fx
                /\ last' = Record("remove", event_id, user, target, RosterOf(event))

\* A slip: the event is kept when its announcement could not be retracted.
StoreWithoutIfRetracted(store, event_id, delete_ok) ==
    IF delete_ok THEN [e \in DOMAIN store \ {event_id} |-> store[e]] ELSE store

\* events.pop(event_id, None), after the attempt to retract the announcement.
StoreWithout(store, event_id, delete_ok) == [e \in DOMAIN store \ {event_id} |-> store[e]]

\* /delete_event <event_id>
delete_event_command(user, event_id, delete_ok) ==
    /\ UNCHANGED <<event_counter, user_data, edit_conv, create_conv, new_event>>
    /\ IF event_id \notin DOMAIN events
       THEN /\ out' = <<Fx("reply", user, "not_found")>>
            /\ last' = Record("delete", event_id, user, 0, NoRoster)
            /\ UNCHANGED events
       ELSE IF ~is_admin(user, TRUE, events[event_id])
       THEN /\ out' = <<Fx("reply", user, "no_rights")>>
            /\ last' = Record("delete_denied", event_id, user, 0, RosterOf(events[event_id]))
            /\ UNCHANGED events
       ELSE /\ events' = StoreWithout(events, event_id, delete_ok)
            /\ out' = <<Fx("retract", event_id, IF delete_ok THEN "ok" ELSE "failed"),
                        Fx("put", event_id, "deleted"), Fx("reply", user, "deleted")>>
            /\ last' = Record("delete", event_id, user, 0, RosterOf(events[event_id]))

\* /edit_event <event_id>: the entry point of the edit conversation.
edit_event_command(user, event_id) ==
    /\ UNCHANGED <<events, event_counter, create_conv, new_event>>
    /\ last' = Record("edit_event", event_id, user, 0, NoRoster)
    /\ IF event_id \notin DOMAIN events
       THEN /\ out' = <<Fx("reply", user, "not_found")>>
            /\ edit_conv' = [edit_conv EXCEPT ![user] = "END"]
            /\ UNCHANGED user_data
       ELSE IF ~is_admin(user, TRUE, events[event_id])
       THEN /\ out' = <<Fx("reply", user, "no_rights")>>
            /\ edit_conv' = [edit_conv EXCEPT ![user] = "END"]
            /\ UNCHANGED user_data
       ELSE /\ out' = <<Fx("reply", user, "which_field")>>
            /\ user_data' = [user_data EXCEPT ![user].edit_event_id = event_id]
            /\ edit_conv' = [edit_conv EXCEPT ![user] = "EDIT_SELECT_FIELD"]

\* The number of the field, typed in state EDIT_SELECT_FIELD.
edit_select_field(user, txt) ==
    /\ edit_conv[user] = "EDIT_SELECT_FIELD"
    /\ UNCHANGED <<events, event_counter, create_conv, new_event>>
    /\ last' = Record("edit_select", user_data[user].edit_event_id, user, txt, NoRoster)
    /\ IF txt \notin 1..6
       THEN /\ out' = <<Fx("reply", user, "bad_choice")>>
            /\ UNCHANGED <<user_data, edit_conv>>
       ELSE /\ out' = <<Fx("reply", user, "send_value")>>
            /\ user_data' = [user_data EXCEPT ![user].edit_field = txt]
            /\ edit_conv' = [edit_conv EXCEPT ![user] = "EDIT_NEW_VALUE"]

\* /cancel, the fallback of both conversations: it ends the create
\* conversation when the user is in it (that handler is registered first),
\* else the edit conversation.
create_cancel(user) ==
    /\ edit_conv[user] # "END" \/ create_conv[user] # "END"
    /\ UNCHANGED <<events, event_counter, user_data>>
    /\ new_event' = [new_event EXCEPT ![user] = NoNewEvent]
    /\ IF create_conv[user] # "END"
       THEN /\ create_conv' = [create_conv EXCEPT ![user] = "END"]
            /\ UNCHANGED edit_conv
       ELSE /\ edit_conv' = [edit_conv EXCEPT ![user] = "END"]
            /\ UNCHANGED create_conv
    /\ out' = <<Fx("reply", user, "cancelled")>>
    /\ last' = Record("cancel", 0, user, 0, NoRoster)

\* A slip: the edited event is built anew from the template of create, its
\* lists empty.
EditFieldFromTemplate(event, fld, text) ==
    [NewEventDict(event.id, event.creator_id, event.capacity, event.message_id, event.photo_id)
        EXCEPT !.title = IF fld = 1 THEN "edited" ELSE event.title]

\* Fields 1, 2, 4, 5: event[key] = message_text; field 6: event["photo_id"]
\* = the photo sent, or None for the word remove.
EditField(event, fld, text) ==
    IF fld = 1 THEN [event EXCEPT !.title = "edited"]
    ELSE IF fld = 2 THEN [event EXCEPT !.date = "edited"]
    ELSE IF fld = 4 THEN [event EXCEPT !.location = "edited"]
    ELSE IF fld = 5 THEN [event EXCEPT !.description = "edited"]
    ELSE [event EXCEPT !.photo_id = IF text.kind = "remove" THEN "none" ELSE "photo"]

\* The new value, typed in state EDIT_NEW_VALUE; field 3 is the capacity.
edit_new_value(user, text, fate, edit_ok) ==
    LET event_id == user_data[user].edit_event_id
        fld == user_data[user].edit_field
    IN  /\ edit_conv[user] = "EDIT_NEW_VALUE"
        /\ fld \in 1..6
        /\ UNCHANGED <<event_counter, create_conv, new_event>>
        /\ IF event_id = 0
           THEN /\ out' = <<Fx("reply", user, "context_lost")>>
                /\ last' = Record("edit_lost", event_id, user, 0, NoRoster)
                /\ edit_conv' = [edit_conv EXCEPT ![user] = "END"]
                /\ UNCHANGED <<events, user_data>>
           ELSE IF event_id \notin DOMAIN events
           THEN /\ out' = <<Fx("reply", user, "gone")>>
                /\ last' = Record("edit_gone", event_id, user, 0, NoRoster)
                /\ edit_conv' = [edit_conv EXCEPT ![user] = "END"]
                /\ UNCHANGED <<events, user_data>>
           ELSE IF fld # 3
           THEN IF \/ fld # 6 /\ text.kind = "empty"
                   \/ fld = 6 /\ text.kind \notin {"empty", "remove"}
                THEN /\ out' = <<Fx("reply", user, "need_value")>>
                     /\ last' = Record("edit_rejected", event_id, user, text.val,
                                       RosterOf(events[event_id]))
                     /\ UNCHANGED <<events, user_data, edit_conv>>
                ELSE LET event == EditField(events[event_id], fld, text)
                     IN  /\ events' = [events EXCEPT ![event_id] = event]
                         /\ out' = update_event_message(event_id, event, user, edit_ok)
                                   \o <<Fx("put", event_id, "ok"), Fx("reply", user, "updated")>>
                         /\ last' = Record("edit_field", event_id, user, fld,
                                           RosterOf(events[event_id]))
                         /\ user_data' = [user_data EXCEPT ![user] = NoUserData]
                         /\ edit_conv' = [edit_conv EXCEPT ![user] = "END"]
           ELSE IF text.kind = "empty"
           THEN /\ out' = <<Fx("reply", user, "need_number")>>
                /\ last' = Record("edit_rejected", event_id, user, text.val,
                                  RosterOf(events[event_id]))
                /\ UNCHANGED <<events, user_data, edit_conv>>
           ELSE IF BadCapacity(text)
           THEN /\ out' = <<Fx("reply", user, "bad_capacity")>>
                /\ last' = Record("edit_rejected", event_id, user, text.val,
                                  RosterOf(events[event_id]))
                /\ UNCHANGED <<events, user_data, edit_conv>>
           ELSE LET event == events[event_id]
                    capacity == ParseInt(text).val
                    r == CapacityResult(event, event_id, capacity, user, fate, edit_ok)
                IN  /\ events' = [events EXCEPT ![event_id] = r.event]
                    /\ out' = r.fx
                    /\ last' = Record("capacity", event_id, user, capacity, RosterOf(event))
                    /\ user_data' = [user_data EXCEPT ![user] = NoUserData]
                    /\ edit_conv' = [edit_conv EXCEPT ![user] = "END"]

\* The id is taken, the announcement is published and, when that succeeded,
\* the event is stored: the end of each of the three ways to create.
PublishNew(op, user, capacity, message_id, send_ok) ==
    LET event_id == NewEventId(event_counter, events)
        event == NewEventDict(event_id, user, capacity, message_id,
                              IF op = "create_photo" THEN "photo" ELSE "none")
    IN  /\ event_counter' = event_id
        /\ last' = Record(op, event_id, user, capacity, NoRoster)
        /\ events' = StoreNew(events, event_id, event, send_ok)
        /\ IF send_ok
           THEN /\ out' = <<Fx("publish", event_id, "ok")>> \o format_event_message(event)
                          \o make_event_keyboard(event_id, event)
                          \o <<Fx("put", event_id, "ok"),
                            Fx("reply", user, "created")>>
           ELSE /\ out' = <<Fx("publish", event_id, "failed"),
                            Fx("reply", user, "publish_failed")>>

\* A photo with the caption Title | Date | Capacity ...
create_event_from_photo_message(user, text, message_id, send_ok) ==
    /\ UNCHANGED <<user_data, edit_conv, create_conv, new_event>>
    /\ IF ~is_admin(user, FALSE, NoRoster)
       THEN /\ out' = <<>>
            /\ last' = Record("create_denied", 0, user, 0, NoRoster)
            /\ UNCHANGED <<events, event_counter>>
       ELSE IF BadCapacity(text)
       THEN /\ out' = <<Fx("reply", user, "bad_capacity")>>
            /\ last' = Record("create_rejected", 0, user, 0, NoRoster)
            /\ UNCHANGED <<events, event_counter>>
       ELSE PublishNew("create_photo", user, ParseInt(text).val, message_id, send_ok)

\* /create: the entry point of the create conversation.
create_start(user) ==
    /\ UNCHANGED <<events, event_counter, user_data, edit_conv>>
    /\ IF ~is_admin(user, FALSE, NoRoster)
       THEN /\ out' = <<Fx("reply", user, "no_rights")>>
            /\ last' = Record("create_denied", 0, user, 0, NoRoster)
            /\ create_conv' = [create_conv EXCEPT ![user] = "END"]
            /\ UNCHANGED new_event
       ELSE /\ out' = <<Fx("reply", user, "send_title")>>
            /\ last' = Record("create_step", 0, user, 0, NoRoster)
            /\ new_event' = [new_event EXCEPT ![user] = [has |-> TRUE, capacity |-> 0]]
            /\ create_conv' = [create_conv EXCEPT ![user] = "C_TITLE"]

\* A step of the create conversation that takes a text and goes on: title,
\* date, location, description.
CreateTextStep(user, from, to) ==
    /\ create_conv[user] = from
    /\ UNCHANGED <<events, event_counter, user_data, edit_conv, new_event>>
    /\ create_conv' = [create_conv EXCEPT ![user] = to]
    /\ out' = <<Fx("reply", user, "send_next")>>
    /\ last' = Record("create_step", 0, user, 0, NoRoster)

create_title(user) == CreateTextStep(user, "C_TITLE", "C_DATE")

create_date(user) == CreateTextStep(user, "C_DATE", "C_CAPACITY")

\* The capacity, typed in state C_CAPACITY.
create_capacity(user, text) ==
    /\ create_conv[user] = "C_CAPACITY"
    /\ UNCHANGED <<events, event_counter, user_data, edit_conv>>
    /\ IF BadCapacity(text)
       THEN /\ out' = <<Fx("reply", user, "bad_capacity")>>
            /\ last' = Record("create_rejected", 0, user, 0, NoRoster)
            /\ UNCHANGED <<create_conv, new_event>>
       ELSE /\ out' = <<Fx("reply", user, "send_next")>>
            /\ last' = Record("create_step", 0, user, 0, NoRoster)
            /\ new_event' = [new_event EXCEPT ![user].capacity = ParseInt(text).val]
            /\ create_conv' = [create_conv EXCEPT ![user] = "C_LOCATION"]

create_location(user) == CreateTextStep(user, "C_LOCATION", "C_DESCRIPTION")

create_description(user) == CreateTextStep(user, "C_DESCRIPTION", "C_PHOTO")

\* A photo or the word skip, sent in state C_PHOTO: the event is published.
create_photo_step(user, message_id, send_ok) ==
    /\ create_conv[user] = "C_PHOTO"
    /\ UNCHANGED <<user_data, edit_conv>>
    /\ PublishNew("create_steps", user, new_event[user].capacity, message_id, send_ok)
    /\ new_event' = [new_event EXCEPT ![user] = NoNewEvent]
    /\ create_conv' = [create_conv EXCEPT ![user] = "END"]

\* /export_event <event_id>: the participants as a file, sent to the user.
\* A slip: the waitlist is written before joined.
ExportRowsWaitlistFirst(event) ==
    [i \in 1..(Len(event.joined) + Len(event.waitlist)) |->
        IF i <= Len(event.waitlist)
        THEN Fx("row", event.waitlist[i], "waitlist")
        ELSE Fx("row", event.joined[i - Len(event.waitlist)], "joined")]

\* The rows written to the csv buffer after the header: one for each entry
\* of joined, then one for each entry of waitlist.
ExportRows(event) ==
    [i \in 1..(Len(event.joined) + Len(event.waitlist)) |->
        IF i <= Len(event.joined)
        THEN Fx("row", event.joined[i], "joined")
        ELSE Fx("row", event.waitlist[i - Len(event.joined)], "waitlist")]

export_event_command(user, event_id, send_ok) ==
    /\ UNCHANGED <<events, event_counter, user_data, edit_conv, create_conv, new_event>>
    /\ IF event_id \notin DOMAIN events
       THEN /\ out' = <<Fx("reply", user, "not_found")>>
            /\ last' = Record("export", event_id, user, 0, NoRoster)
       ELSE IF ~is_admin(user, TRUE, events[event_id])
       THEN /\ out' = <<Fx("reply", user, "no_rights")>>
            /\ last' = Record("export_denied", event_id, user, 0, RosterOf(events[event_id]))
       ELSE /\ out' = ExportRows(events[event_id])
                      \o (IF send_ok
                          THEN <<Fx("document", user, "ok"), Fx("reply", user, "export_sent")>>
                          ELSE <<Fx("document", user, "failed"),
                                 Fx("reply", user, "export_failed")>>)
            /\ last' = Record("export", event_id, user, 0, RosterOf(events[event_id]))

\* ---------------------------------------------------------- the inputs
\* The outcomes of the sends of a promotion loop over the waitlist of e: one
\* for each entry the loop can reach.
Fates(e) ==
    IF e \in DOMAIN events THEN [1..Len(events[e].waitlist) -> NotifyOutcomes] ELSE {<<>>}

\* Leave and remove promote only when they take uid out of joined.
FatesFor(e, uid) ==
    IF e \in DOMAIN events /\ Has(events[e].joined, uid) THEN Fates(e) ELSE {<<>>}

\* Each handler with its inputs: the commanding users `us`, and `oks`, whether
\* the edit (or the removal) of the announcement succeeds.
Create(us) ==
    \E user \in us, text \in CapacityTexts, m \in ChannelMessageIds, ok \in BOOLEAN :
        /\ event_counter + 1 \in EventIds
        /\ create_event_command_quick(user, text, m, ok)

Join(oks) ==
    \E e \in EventIds, uid \in Users, ok \in oks : button_handler("join", e, uid, <<>>, ok)

Leave(oks) ==
    \E e \in EventIds, uid \in Users, ok \in oks : \E fate \in FatesFor(e, uid) :
        button_handler("leave", e, uid, fate, ok)

Remove(us, oks) ==
    \E user \in us, e \in EventIds, target \in Users, ok \in oks :
        \E fate \in FatesFor(e, target) : remove_participant_command(user, e, target, fate, ok)

Delete(us, oks) ==
    \E user \in us, e \in EventIds, ok \in oks : delete_event_command(user, e, ok)

EditStart(us) == \E user \in us, e \in EventIds : edit_event_command(user, e)

EditSelect == \E user \in Users, txt \in FieldChoices : edit_select_field(user, txt)

EditCancel == \E user \in Users : create_cancel(user)

EditValue(oks) ==
    \E user \in Users, text \in CapacityTexts, ok \in oks :
        \E fate \in Fates(user_data[user].edit_event_id) : edit_new_value(user, text, fate, ok)

\* ------------------------------------------------------ specifications
\* The handlers, one update at a time.
Next ==
    \/ Create(Users) /\ UNCHANGED <<hist, tasks, trip>>
    \/ Join(BOOLEAN) /\ UNCHANGED <<hist, tasks, trip>>
    \/ Leave(BOOLEAN) /\ UNCHANGED <<hist, tasks, trip>>
    \/ Remove(Users, BOOLEAN) /\ UNCHANGED <<hist, tasks, trip>>
    \/ Delete(Users, BOOLEAN) /\ UNCHANGED <<hist, tasks, trip>>
    \/ EditStart(Users) /\ UNCHANGED <<hist, tasks, trip>>
    \/ EditSelect /\ UNCHANGED <<hist, tasks, trip>>
    \/ EditCancel /\ UNCHANGED <<hist, tasks, trip>>
    \/ EditValue(BOOLEAN) /\ UNCHANGED <<hist, tasks, trip>>

Spec == Init /\ [][Next]_vars

\* The same handlers with the history of the waitlists kept, commanded by the
\* admins, the announcement edits succeeding.
NextFifo ==
    \/ Create(ADMIN_IDS) /\ TrackHist
    \/ Join({TRUE}) /\ TrackHist
    \/ Leave({TRUE}) /\ TrackHist
    \/ Remove(ADMIN_IDS, {TRUE}) /\ TrackHist
    \/ Delete(ADMIN_IDS, {TRUE}) /\ TrackHist
    \/ EditStart(ADMIN_IDS) /\ TrackHist
    \/ EditSelect /\ TrackHist
    \/ EditCancel /\ TrackHist
    \/ EditValue({TRUE}) /\ TrackHist

SpecFifo == Init /\ [][NextFifo]_vars

\* The bot started on a stored event.  PicklePersistence (main) loads
\* bot_data as it was last written; the event dicts in it are the ones the
\* handlers change in place, and they are written out while a handler awaits
\* a send, so what is loaded can be a roster in the middle of a promotion
\* loop: any roster within the capacity, without repeats, the lists disjoint,
\* a vacancy with actors waiting included.
Lists == {s \in UNION {[1..n -> Users] : n \in 0..MaxUser} :
            \A i, j \in 1..Len(s) : i # j => s[i] # s[j]}

Rosters ==
    {r \in [capacity : 1..MaxCapacity, joined : Lists, waitlist : Lists] :
        /\ Len(r.joined) <= r.capacity
        /\ Range(r.joined) \cap Range(r.waitlist) = {}}

Loaded(rosters, creators) ==
    /\ \E r \in rosters, creator \in creators, m \in ChannelMessageIds :
          events = [e \in EventIds |->
                      [NewEventDict(e, creator, r.capacity, m, "none")
                         EXCEPT !.joined = r.joined, !.waitlist = r.waitlist]]
    /\ event_counter = Cardinality(EventIds)
    /\ user_data = [u \in Users |-> NoUserData]
    /\ edit_conv = [u \in Users |-> "END"]
    /\ create_conv = [u \in Users |-> "END"]
    /\ new_event = [u \in Users |-> NoNewEvent]
    /\ out = <<>>
    /\ last = Record("start", 0, 0, 0, NoRoster)
    /\ hist = [e \in EventIds |-> NoHist]
    /\ tasks = [u \in Users |-> NoTask]
    /\ trip = NoTrip

InitStored == Loaded(Rosters, ADMIN_IDS)

\* The buttons of the stored event, pressed.
NextStored ==
    \/ Join(BOOLEAN) /\ UNCHANGED <<hist, tasks, trip>>
    \/ Leave(BOOLEAN) /\ UNCHANGED <<hist, tasks, trip>>

SpecStored == InitStored /\ [][NextStored]_vars

\* The same start, with the admin's remove_participant beside the buttons.
NextVacancy ==
    \/ Join(BOOLEAN) /\ UNCHANGED <<hist, tasks, trip>>
    \/ Leave(BOOLEAN) /\ UNCHANGED <<hist, tasks, trip>>
    \/ Remove(ADMIN_IDS, BOOLEAN) /\ UNCHANGED <<hist, tasks, trip>>

SpecVacancy == InitStored /\ [][NextVacancy]_vars

\* The store of several events: create, delete, export, the edit
\* conversation, remove_participant and the buttons, addressed to every id of
\* StoreIds, commanded by every user.  Ids are issued up to MaxEventId.  A
\* text typed while the create conversation waits for it goes to that
\* conversation, which is registered before the edit conversation.
CreateQuick(us) ==
    \E user \in us, text \in CapacityTexts, m \in ChannelMessageIds, ok \in BOOLEAN :
        /\ event_counter < MaxEventId
        /\ create_event_command_quick(user, text, m, ok)

CreatePhoto(us) ==
    \E user \in us, text \in CapacityTexts, m \in ChannelMessageIds, ok \in BOOLEAN :
        /\ event_counter < MaxEventId
        /\ create_event_from_photo_message(user, text, m, ok)

CreateStart(us) == \E user \in us : create_start(user)

CreateText ==
    \E user \in Users :
        \/ create_title(user)
        \/ create_date(user)
        \/ create_location(user)
        \/ create_description(user)

CreateCapacity ==
    \E user \in Users, text \in CapacityTexts : text.kind # "empty" /\ create_capacity(user, text)

CreatePublish ==
    \E user \in Users, m \in ChannelMessageIds, ok \in BOOLEAN :
        /\ event_counter < MaxEventId
        /\ create_photo_step(user, m, ok)

JoinAt(ids, uids, oks) ==
    \E e \in ids, uid \in uids, ok \in oks : button_handler("join", e, uid, <<>>, ok)

LeaveAt(ids, uids, oks) ==
    \E e \in ids, uid \in uids, ok \in oks : \E fate \in FatesFor(e, uid) :
        button_handler("leave", e, uid, fate, ok)

RemoveAt(ids, us, targets, oks) ==
    \E user \in us, e \in ids, target \in targets, ok \in oks :
        \E fate \in FatesFor(e, target) : remove_participant_command(user, e, target, fate, ok)

DeleteAt(ids, us, oks) ==
    \E user \in us, e \in ids, ok \in oks : delete_event_command(user, e, ok)

ExportAt(ids, us, oks) ==
    \E user \in us, e \in ids, ok \in oks : export_event_command(user, e, ok)

EditStartAt(ids, us) == \E user \in us, e \in ids : edit_event_command(user, e)

EditSelectAfterCreate ==
    \E user \in Users, txt \in FieldChoices :
        /\ create_conv[user] \in {"END", "C_PHOTO"}
        /\ edit_select_field(user, txt)

EditValueAfterCreate(oks) ==
    \E user \in Users, text \in CapacityTexts, ok \in oks :
        \E fate \in Fates(user_data[user].edit_event_id) :
            /\ create_conv[user] \in (IF text.kind = "empty" THEN {"END"} ELSE {"END", "C_PHOTO"})
            /\ edit_new_value(user, text, fate, ok)

NextStore ==
    \/ CreateQuick(Users) /\ UNCHANGED <<hist, tasks, trip>>
    \/ CreatePhoto(Users \ ADMIN_IDS) /\ UNCHANGED <<hist, tasks, trip>>
    \/ CreateStart(Users \ ADMIN_IDS) /\ UNCHANGED <<hist, tasks, trip>>
    \/ JoinAt(StoreIds, StorePressers, {TRUE}) /\ UNCHANGED <<hist, tasks, trip>>
    \/ LeaveAt(StoreIds, StorePressers, {TRUE}) /\ UNCHANGED <<hist, tasks, trip>>
    \/ RemoveAt(StoreIds, Users, StorePressers, {TRUE}) /\ UNCHANGED <<hist, tasks, trip>>
    \/ DeleteAt(StoreIds, Users, BOOLEAN) /\ UNCHANGED <<hist, tasks, trip>>
    \/ ExportAt(StoreIds, Users, BOOLEAN) /\ UNCHANGED <<hist, tasks, trip>>
    \/ EditStartAt(StoreIds, Users) /\ UNCHANGED <<hist, tasks, trip>>
    \/ EditSelectAfterCreate /\ UNCHANGED <<hist, tasks, trip>>
    \/ EditCancel /\ UNCHANGED <<hist, tasks, trip>>
    \/ EditValueAfterCreate({TRUE}) /\ UNCHANGED <<hist, tasks, trip>>

SpecStore == Init /\ [][NextStore]_vars

\* The ways an event comes to be and ceases: the three ways to create, the
\* capacity edit and delete, commanded by the admins and by one user who is
\* not an admin; that user presses join.
Commanders == ADMIN_IDS \cup StorePressers

NextCreate ==
    \/ CreateQuick(Commanders) /\ UNCHANGED <<hist, tasks, trip>>
    \/ JoinAt(StoreIds, StorePressers, {TRUE}) /\ UNCHANGED <<hist, tasks, trip>>
    \/ CreatePhoto(Commanders) /\ UNCHANGED <<hist, tasks, trip>>
    \/ CreateStart(Commanders) /\ UNCHANGED <<hist, tasks, trip>>
    \/ CreateText /\ UNCHANGED <<hist, tasks, trip>>
    \/ CreateCapacity /\ UNCHANGED <<hist, tasks, trip>>
    \/ CreatePublish /\ UNCHANGED <<hist, tasks, trip>>
    \/ DeleteAt(StoreIds, ADMIN_IDS, BOOLEAN) /\ UNCHANGED <<hist, tasks, trip>>
    \/ EditStartAt(StoreIds, ADMIN_IDS) /\ UNCHANGED <<hist, tasks, trip>>
    \/ EditSelectAfterCreate /\ UNCHANGED <<hist, tasks, trip>>
    \/ EditCancel /\ UNCHANGED <<hist, tasks, trip>>
    \/ EditValueAfterCreate({TRUE}) /\ UNCHANGED <<hist, tasks, trip>>

SpecCreate == Init /\ [][NextCreate]_vars

\* The bot started on a stored event with another allow-list: ADMIN_IDS is
\* read from the environment at each start, creator_id is stored with the
\* event, so the creator of a loaded event can be a user who is not on the
\* list now.  The commands that ask for rights, given by every user; the
\* loaded event is full, with at most one actor waiting.
OwnerRosters == {r \in Rosters : r.capacity = 1 /\ Len(r.joined) = 1 /\ Len(r.waitlist) <= 1}

InitOwner == Loaded(OwnerRosters, Users)

NextOwner ==
    \/ CreateQuick(Users \ ADMIN_IDS) /\ UNCHANGED <<hist, tasks, trip>>
    \/ CreatePhoto(Users \ ADMIN_IDS) /\ UNCHANGED <<hist, tasks, trip>>
    \/ CreateStart(Users \ ADMIN_IDS) /\ UNCHANGED <<hist, tasks, trip>>
    \/ RemoveAt(StoreIds, Users, Users, {TRUE}) /\ UNCHANGED <<hist, tasks, trip>>
    \/ DeleteAt(StoreIds, Users, BOOLEAN) /\ UNCHANGED <<hist, tasks, trip>>
    \/ ExportAt(StoreIds, Users, BOOLEAN) /\ UNCHANGED <<hist, tasks, trip>>
    \/ EditStartAt(StoreIds, Users) /\ UNCHANGED <<hist, tasks, trip>>
    \/ EditCancel /\ UNCHANGED <<hist, tasks, trip>>

SpecOwner == InitOwner /\ [][NextOwner]_vars

\* The announcement of a stored event whatever its capacity: the data file
\* may hold an event with capacity <= 0, which make_event_keyboard provides
\* for although no create or edit of this program stores one.  The closed
\* control sends no_join; join and leave can still arrive from a keyboard
\* rendered earlier.
MinCapacity == 0 - 1

KeyboardRosters ==
    {r \in [capacity : MinCapacity..MaxCapacity, joined : Lists, waitlist : Lists] :
        /\ Len(r.joined) <= r.capacity \/ r.joined = <<>>
        /\ Range(r.joined) \cap Range(r.waitlist) = {}}

InitKeyboard == Loaded(KeyboardRosters, ADMIN_IDS)

PressClosed ==
    \E e \in EventIds, uid \in Users :
        /\ e \in DOMAIN events
        /\ make_event_keyboard(e, events[e]) = <<Fx("button", 0, "closed")>>
        /\ button_handler("no_join", e, uid, <<>>, TRUE)

NextKeyboard ==
    \/ Join(BOOLEAN) /\ UNCHANGED <<hist, tasks, trip>>
    \/ Leave(BOOLEAN) /\ UNCHANGED <<hist, tasks, trip>>
    \/ PressClosed /\ UNCHANGED <<hist, tasks, trip>>

SpecKeyboard == InitKeyboard /\ [][NextKeyboard]_vars

\* One event edited in every field by the admin while the other users press
\* its buttons: a text, a photo (no text) or the word remove is sent as the new
\* value, a numeral for the capacity.
EditTexts ==
    {[kind |-> "word", val |-> 0], [kind |-> "empty", val |-> 0],
     [kind |-> "remove", val |-> 0], [kind |-> "int", val |-> 1]}

EditSelectAny == \E user \in ADMIN_IDS, txt \in 1..6 : edit_select_field(user, txt)

EditValueAny ==
    \E user \in ADMIN_IDS, text \in EditTexts :
        \E fate \in Fates(user_data[user].edit_event_id) :
            edit_new_value(user, text, fate, TRUE)

NextEdit ==
    \/ Create(ADMIN_IDS) /\ UNCHANGED <<hist, tasks, trip>>
    \/ JoinAt(EventIds, Users \ ADMIN_IDS, {TRUE}) /\ UNCHANGED <<hist, tasks, trip>>
    \/ LeaveAt(EventIds, Users \ ADMIN_IDS, {TRUE}) /\ UNCHANGED <<hist, tasks, trip>>
    \/ RemoveAt(EventIds, ADMIN_IDS, Users \ ADMIN_IDS, {TRUE}) /\ UNCHANGED <<hist, tasks, trip>>
    \/ Delete(ADMIN_IDS, {TRUE}) /\ UNCHANGED <<hist, tasks, trip>>
    \/ EditStart(ADMIN_IDS) /\ UNCHANGED <<hist, tasks, trip>>
    \/ EditSelectAny /\ UNCHANGED <<hist, tasks, trip>>
    \/ EditValueAny /\ UNCHANGED <<hist, tasks, trip>>

SpecEdit == Init /\ [][NextEdit]_vars

\* One event with every user pressing its buttons, and its export.
Export(us, oks) ==
    \E user \in us, e \in EventIds, ok \in oks : export_event_command(user, e, ok)

NextExport ==
    \/ Create(ADMIN_IDS) /\ UNCHANGED <<hist, tasks, trip>>
    \/ Join({TRUE}) /\ UNCHANGED <<hist, tasks, trip>>
    \/ Leave({TRUE}) /\ UNCHANGED <<hist, tasks, trip>>
    \/ Export(Users, BOOLEAN) /\ UNCHANGED <<hist, tasks, trip>>

SpecExport == Init /\ [][NextExport]_vars

\* The handlers of one event with the capacity trips kept: the admin
\* creates, removes and edits, every user presses the buttons.
NextRoundTrip ==
    \/ Create(ADMIN_IDS) /\ TrackTrip /\ UNCHANGED <<hist, tasks>>
    \/ Join({TRUE}) /\ TrackTrip /\ UNCHANGED <<hist, tasks>>
    \/ Leave({TRUE}) /\ TrackTrip /\ UNCHANGED <<hist, tasks>>
    \/ Remove(ADMIN_IDS, {TRUE}) /\ TrackTrip /\ UNCHANGED <<hist, tasks>>
    \/ EditStart(ADMIN_IDS) /\ TrackTrip /\ UNCHANGED <<hist, tasks>>
    \/ EditSelect /\ TrackTrip /\ UNCHANGED <<hist, tasks>>
    \/ EditCancel /\ TrackTrip /\ UNCHANGED <<hist, tasks>>
    \/ EditValue({TRUE}) /\ TrackTrip /\ UNCHANGED <<hist, tasks>>

SpecRoundTrip == Init /\ [][NextRoundTrip]_vars

\* ------------------------------------------ the handlers, await by await
\* A handler is a coroutine: it runs from one await to the next and can be
\* suspended at each. The steps below are the segments of button_handler and
\* of edit_new_value (field 3) between their awaits; `event` is the dict in
\* bot_data itself, so every assignment shows in the store at once.

\* A slip: the Application is built with concurrent_updates, each update is
\* handled in a task of its own.
CanTakeConcurrently == TRUE

\* ApplicationBuilder().token(token).persistence(persistence).build(): no
\* concurrent_updates and no handler with block=False, the Application awaits
\* the handler of one update before it takes the next from the queue.
CanTake == \A u \in Users : tasks[u] = NoTask

\* A slip: the announcement is made from a copy of the event taken when the
\* handler read it.
SnapshotAsRead(now, read) == read

\* update_event_message is handed `event`, the dict the handler has changed.
SnapshotToRender(now, read) == now

\* text= / caption= and reply_markup= of the edit of the announcement.
Rendering(event_id, event) ==
    IF event.message_id = 0 THEN <<>>
    ELSE format_event_message(event) \o make_event_keyboard(event_id, event)

\* The dict a suspended handler holds in `event`: the one in the store while
\* the id is stored, its own reference once the id was popped.
Object(t) == IF t.eid \in DOMAIN events THEN events[t.eid] ELSE t.event

\* An assignment to a key of `event`: it shows in the store while the dict is
\* in it.
InPlace(store, event_id, event) ==
    IF event_id \in DOMAIN store THEN [store EXCEPT ![event_id] = event] ELSE store

\* events[event_id] = event: the id is in the store afterwards, whether it
\* was or not.
Put(store, event_id, event) ==
    [e \in DOMAIN store \cup {event_id} |-> IF e = event_id THEN event ELSE store[e]]

\* The test of the promotion loop and what follows it up to the next await:
\* pop(0), append and the send of the notice, or, past the loop, the count
\* reply of the edit, persist of the button and of the removal, and the edit
\* of the announcement.
LoopOrRender(t, event) ==
    IF t.loops /\ Len(event.joined) < event.capacity /\ event.waitlist # <<>>
    THEN LET e1 == [event EXCEPT !.joined = Append(event.joined, Pop0(event.waitlist).promoted),
                                 !.waitlist = Pop0(event.waitlist).rest]
         IN  [store |-> InPlace(events, t.eid, e1),
              task |-> [t EXCEPT !.pc = "notice", !.event = e1,
                                 !.promoted = Pop0(event.waitlist).promoted],
              fx |-> <<>>]
    ELSE [store |-> IF t.h = "edit" THEN InPlace(events, t.eid, event)
                    ELSE Put(events, t.eid, event),
          task |-> [t EXCEPT !.pc = "announce", !.event = event,
                             !.rendered = Rendering(t.eid, SnapshotToRender(event, t.pre))],
          fx |-> IF t.h # "edit" THEN <<Fx("put", t.eid, "ok")>>
                 ELSE IF Len(t.seen) > 0 THEN <<Fx("reply", t.uid, "promoted")>>
                 ELSE <<>>]

\* The update of a press is taken; button_handler runs to await query.answer().
press(action, event_id, uid) ==
    /\ CanTake
    /\ tasks[uid] = NoTask
    /\ tasks' = [tasks EXCEPT ![uid] = [NoTask EXCEPT !.h = "button", !.pc = "answer",
                                                      !.eid = event_id, !.uid = uid,
                                                      !.action = action]]
    /\ UNCHANGED <<events, event_counter, user_data, edit_conv, create_conv, new_event,
                   out, last, hist, trip>>

\* query.answer() returned: the lookup, steps 1 and 2 and the entry of step 3.
button_read(uid) ==
    LET t == tasks[uid]
    IN  /\ t.h = "button" /\ t.pc = "answer"
        /\ UNCHANGED <<event_counter, user_data, edit_conv, create_conv, new_event, hist, trip>>
        /\ IF t.eid \notin DOMAIN events
           THEN /\ out' = <<Fx("alert", uid, "not_found")>>
                /\ last' = Record(t.action, t.eid, uid, 0, NoRoster)
                /\ tasks' = [tasks EXCEPT ![uid] = NoTask]
                /\ UNCHANGED events
           ELSE LET event == events[t.eid]
                    is_joined == Has(event.joined, uid)
                    is_waiting == Has(event.waitlist, uid)
                    e1 == RemovePresser(event, uid)
                    e2 == IF t.action = "join" THEN JoinPlace(e1, uid) ELSE e1
                    response == IF t.action = "join" THEN JoinResponse(e1) ELSE "left"
                    s == LoopOrRender([t EXCEPT !.loops = is_joined /\ t.action = "leave",
                                                !.response = response, !.pre = event], e2)
                IN  /\ last' = Record(t.action, t.eid, uid, 0, RosterOf(event))
                    /\ IF t.action = "leave" /\ ~(is_joined \/ is_waiting)
                       THEN /\ out' = <<Fx("alert", uid, "not_present")>>
                            /\ tasks' = [tasks EXCEPT ![uid] = NoTask]
                            /\ UNCHANGED events
                       ELSE /\ out' = s.fx
                            /\ tasks' = [tasks EXCEPT ![uid] = s.task]
                            /\ events' = s.store

\* The new capacity is typed: edit_new_value runs to its first await, the
\* reply of a refusal or, the capacity set and the overflow moved, the first
\* notice or the edit of the announcement.
type_value(user, text) ==
    LET event_id == user_data[user].edit_event_id
    IN  /\ CanTake
        /\ tasks[user] = NoTask
        /\ edit_conv[user] = "EDIT_NEW_VALUE"
        /\ user_data[user].edit_field = 3
        /\ IF event_id = 0 \/ event_id \notin DOMAIN events \/ text.kind = "empty"
              \/ BadCapacity(text)
           THEN edit_new_value(user, text, <<>>, TRUE) /\ UNCHANGED <<hist, tasks, trip>>
           ELSE LET event == events[event_id]
                    capacity == ParseInt(text).val
                    e1 == [event EXCEPT !.capacity = capacity]
                    shrinks == Len(e1.joined) > capacity
                    t == [NoTask EXCEPT !.h = "edit", !.eid = event_id, !.uid = user,
                                        !.action = "capacity", !.capacity = capacity,
                                        !.loops = ~shrinks, !.response = "updated",
                                        !.pre = event]
                    s == LoopOrRender(t, IF shrinks THEN Overflow(e1, capacity) ELSE e1)
                IN  /\ last' = Record("capacity", event_id, user, capacity, RosterOf(event))
                    /\ out' = s.fx
                    /\ tasks' = [tasks EXCEPT ![user] = s.task]
                    /\ events' = s.store
                    /\ UNCHANGED <<event_counter, user_data, edit_conv, create_conv,
                                   new_event, hist, trip>>

\* The send of a promotion notice returned or raised: an exception the
\* handler does not catch ends it in the error handler, else the loop goes on.
notice_return(uid, outcome) ==
    LET t == tasks[uid]
        event == Object(t)
        notice == PromotionNotice(t.promoted, SubSeq(event.joined, 1, Len(event.joined) - 1),
                                  outcome)
        s == LoopOrRender([t EXCEPT !.seen = Append(t.seen, outcome)], event)
    IN  /\ t.pc = "notice"
        /\ UNCHANGED <<event_counter, user_data, edit_conv, create_conv, new_event, last, hist, trip>>
        /\ IF outcome \notin (IF t.h = "button" THEN ButtonCaught ELSE AllCaught)
           THEN /\ out' = out \o <<notice, Fx("error_handler", uid, "exception")>>
                /\ tasks' = [tasks EXCEPT ![uid] = NoTask]
                /\ UNCHANGED events
           ELSE /\ out' = out \o <<notice>> \o s.fx
                /\ tasks' = [tasks EXCEPT ![uid] = s.task]
                /\ events' = s.store

\* /remove_participant: the handler runs to its first await, the reply of a
\* refusal or, the target filtered out of the lists, the first notice or the
\* edit of the announcement.
remove_start(user, event_id, target) ==
    /\ CanTake
    /\ tasks[user] = NoTask
    /\ IF \/ event_id \notin DOMAIN events
          \/ ~may_remove(user, TRUE, events[event_id])
          \/ ~(Has(events[event_id].joined, target) \/ Has(events[event_id].waitlist, target))
       THEN remove_participant_command(user, event_id, target, <<>>, TRUE)
            /\ UNCHANGED <<hist, tasks, trip>>
       ELSE LET event == events[event_id]
                e1 == [event EXCEPT !.joined = Without(event.joined, target),
                                    !.waitlist = Without(event.waitlist, target)]
                t == [NoTask EXCEPT !.h = "remove", !.eid = event_id, !.uid = user,
                                    !.action = "remove", !.target = target,
                                    !.loops = Has(event.joined, target),
                                    !.response = "removed", !.pre = event]
                s == LoopOrRender(t, e1)
            IN  /\ last' = Record("remove", event_id, user, target, RosterOf(event))
                /\ out' = s.fx
                /\ tasks' = [tasks EXCEPT ![user] = s.task]
                /\ events' = s.store
                /\ UNCHANGED <<event_counter, user_data, edit_conv, create_conv,
                               new_event, hist, trip>>

\* The edit of the announcement returned or raised (update_event_message
\* catches it): the button and the removal confirm; the edit persists,
\* replies and ends the conversation.
announce_return(uid, edit_ok) ==
    LET t == tasks[uid]
        shown == IF t.rendered = <<>> THEN <<>>
                 ELSE IF edit_ok THEN <<Fx("announce", t.eid, "ok")>> \o t.rendered
                 ELSE <<Fx("announce", t.eid, "failed"), Fx("warn", uid, "announce_failed")>>
    IN  /\ t.pc = "announce"
        /\ tasks' = [tasks EXCEPT ![uid] = NoTask]
        /\ UNCHANGED <<event_counter, create_conv, new_event, last, hist, trip>>
        /\ IF t.h # "edit"
           THEN /\ out' = out \o shown \o <<Fx("reply", uid, t.response)>>
                /\ UNCHANGED <<events, user_data, edit_conv>>
           ELSE /\ events' = Put(events, t.eid, Object(t))
                /\ out' = out \o shown
                             \o <<Fx("put", t.eid, "ok"), Fx("reply", uid, "updated")>>
                /\ user_data' = [user_data EXCEPT ![uid] = NoUserData]
                /\ edit_conv' = [edit_conv EXCEPT ![uid] = "END"]

\* The other handlers keep their single step; each is taken from the queue
\* like any update.
Press == \E action \in {"join", "leave"}, e \in EventIds, uid \in Users : press(action, e, uid)

ButtonRead == \E uid \in Users : button_read(uid)

TypeValue == \E user \in ADMIN_IDS, text \in CapacityTexts : type_value(user, text)

RemoveStart ==
    \E user \in ADMIN_IDS, e \in EventIds, target \in Users : remove_start(user, e, target)

NoticeReturn == \E uid \in Users, outcome \in NotifyOutcomes : notice_return(uid, outcome)

AnnounceReturn == \E uid \in Users, ok \in BOOLEAN : announce_return(uid, ok)

NextSteps ==
    \/ CanTake /\ Create(ADMIN_IDS) /\ UNCHANGED <<hist, tasks, trip>>
    \/ CanTake /\ EditStart(ADMIN_IDS) /\ UNCHANGED <<hist, tasks, trip>>
    \/ CanTake /\ EditSelect /\ UNCHANGED <<hist, tasks, trip>>
    \/ CanTake /\ Delete(ADMIN_IDS, BOOLEAN) /\ UNCHANGED <<hist, tasks, trip>>
    \/ RemoveStart
    \/ Press
    \/ ButtonRead
    \/ TypeValue
    \/ NoticeReturn
    \/ AnnounceReturn

SpecSteps == Init /\ [][NextSteps]_vars

\* ------------------------------------------------------------ claims
Min(a, b) == IF a < b THEN a ELSE b

NoRepeat(s) == \A i, j \in 1..Len(s) : i # j => s[i] # s[j]

\* The event the last handler found, still stored.
Acted(op) == last.op = op /\ last.eid \in DOMAIN events /\ last.pre # NoRoster

Confirmed(e, uid) == e \in DOMAIN events /\ Has(events[e].joined, uid)

Waiting(e, uid) == e \in DOMAIN events /\ Has(events[e].waitlist, uid)

Notified(fx) == [i \in 1..Len(Kinds(fx, "notify")) |-> Kinds(fx, "notify")[i].arg]

\* C1: in every state, whatever joins, leaves, capacity edits and removals led
\* to it, every stored event has at most `capacity` actors in joined.
C1_JoinedWithinCapacity ==
    \A e \in DOMAIN events : Len(events[e].joined) <= events[e].capacity

\* A join by a new actor on a full event has put the presser on the waitlist.
C1_Witness ==
    /\ Acted("join")
    /\ Len(last.pre.joined) = last.pre.capacity
    /\ ~Has(last.pre.joined, last.uid)
    /\ ~Has(last.pre.waitlist, last.uid)
    /\ Waiting(last.eid, last.uid)
    /\ Len(events[last.eid].joined) = events[last.eid].capacity

\* C2: in every state no actor is in both joined and waitlist of an event.
C2_ListsDisjoint ==
    \A e \in DOMAIN events : Range(events[e].joined) \cap Range(events[e].waitlist) = {}

\* A confirmed actor pressed join on a full event with actors waiting, and
\* is in joined alone.
C2_Witness ==
    /\ Acted("join")
    /\ Has(last.pre.joined, last.uid)
    /\ last.pre.waitlist # <<>>
    /\ Confirmed(last.eid, last.uid)
    /\ ~Waiting(last.eid, last.uid)

\* C3: in every state no actor occurs twice in joined and none twice in waitlist.
C3_NoActorTwice ==
    \A e \in DOMAIN events : NoRepeat(events[e].joined) /\ NoRepeat(events[e].waitlist)

\* A waiting actor pressed join again, and is on the waitlist once.
C3_Witness ==
    /\ Acted("join")
    /\ Has(last.pre.waitlist, last.uid)
    /\ Waiting(last.eid, last.uid)
    /\ Len(events[last.eid].waitlist) = Len(last.pre.waitlist)

\* C4 as stated: if A entered the waitlist, in whatever way, before B did, and
\* neither has left, pressed join again or been removed since, then B is not
\* in joined while A is on the waitlist.
C4_AnyEntryOrder ==
    \A e \in DOMAIN events : \A p \in hist[e].before :
        ~(Has(events[e].joined, p[2]) /\ Has(events[e].waitlist, p[1]))

\* C4: FIFO promotion.  If a join press put A on the waitlist before a join
\* press put B on it, and neither has left, pressed join again or been
\* removed since, then B is never in joined while A is on the waitlist.
C4_FifoPromotion ==
    \A e \in DOMAIN events : \A p \in hist[e].qbefore :
        ~(Has(events[e].joined, p[2]) /\ Has(events[e].waitlist, p[1]))

\* A queued before B, both were waiting, and a promotion has taken A and
\* left B.
C4_Witness ==
    /\ last.op \in {"leave", "remove", "capacity"}
    /\ last.eid \in DOMAIN events
    /\ Len(last.pre.waitlist) = 2
    /\ <<last.pre.waitlist[1], last.pre.waitlist[2]>> \in hist[last.eid].qbefore
    /\ Confirmed(last.eid, last.pre.waitlist[1])
    /\ Waiting(last.eid, last.pre.waitlist[2])

\* C5: when an actor in joined leaves an event whose joined is full and whose
\* waitlist is not empty, the head of the waitlist, and nobody else, goes to
\* the tail of joined, the rest of the waitlist keeps its order, and exactly
\* one promotion notice is attempted, to that actor.
C5_LeavePromotesHead ==
    (/\ Acted("leave")
     /\ Has(last.pre.joined, last.uid)
     /\ Len(last.pre.joined) = last.pre.capacity
     /\ last.pre.waitlist # <<>>)
    => /\ events[last.eid].joined
            = Append(Without(last.pre.joined, last.uid), Head(last.pre.waitlist))
       /\ events[last.eid].waitlist = Tail(last.pre.waitlist)
       /\ Notified(out) = <<Head(last.pre.waitlist)>>

\* A confirmed actor has left a full event with two actors waiting: the first
\* of them is confirmed, the second still waits.
C5_Witness ==
    /\ Acted("leave")
    /\ Has(last.pre.joined, last.uid)
    /\ Len(last.pre.joined) = last.pre.capacity
    /\ Len(last.pre.waitlist) = 2
    /\ Confirmed(last.eid, last.pre.waitlist[1])
    /\ Waiting(last.eid, last.pre.waitlist[2])

\* C6: a capacity edit to n with 1 <= n < len(joined) leaves joined equal to
\* its first n entries, sets waitlist to the cut tail followed by the previous
\* waitlist, both in their order, and notifies nobody.
C6_LoweringMovesTailToFront ==
    (/\ Acted("capacity")
     /\ 1 <= last.arg
     /\ last.arg < Len(last.pre.joined))
    => /\ events[last.eid].joined = SubSeq(last.pre.joined, 1, last.arg)
       /\ events[last.eid].waitlist
            = SubSeq(last.pre.joined, last.arg + 1, Len(last.pre.joined))
                \o last.pre.waitlist
       /\ events[last.eid].capacity = last.arg
       /\ Notified(out) = <<>>

\* The capacity was lowered below len(joined) while an actor was waiting.
C6_Witness ==
    /\ Acted("capacity")
    /\ 1 <= last.arg
    /\ last.arg < Len(last.pre.joined)
    /\ last.pre.waitlist # <<>>
    /\ Len(events[last.eid].waitlist) > Len(last.pre.waitlist)

\* C7: a capacity edit to n > len(joined) moves the first
\* k = min(n - len(joined), len(waitlist)) waitlist entries, in order, to the
\* tail of joined, leaves the other waitlist entries in order, and sends
\* exactly k promotion notices, in that order.
C7_RaisingPromotesInOrder ==
    (/\ Acted("capacity")
     /\ last.arg > Len(last.pre.joined))
    => LET k == Min(last.arg - Len(last.pre.joined), Len(last.pre.waitlist))
       IN  /\ events[last.eid].joined = last.pre.joined \o SubSeq(last.pre.waitlist, 1, k)
           /\ events[last.eid].waitlist
                = SubSeq(last.pre.waitlist, k + 1, Len(last.pre.waitlist))
           /\ Notified(out) = SubSeq(last.pre.waitlist, 1, k)

\* The capacity was raised by two over a joined list with two actors waiting.
C7_Witness ==
    /\ Acted("capacity")
    /\ last.pre.joined # <<>>
    /\ Len(last.pre.waitlist) = 2
    /\ last.arg = Len(last.pre.joined) + 2
    /\ Len(events[last.eid].joined) = last.arg
    /\ Len(Notified(out)) = 2

\* C8: a join by actor a takes a out of both lists, then appends a to joined
\* if len(joined) < capacity, else to the tail of the waitlist; every other
\* actor keeps its list and its place among the others, and no promotion
\* notice is sent.
C8_JoinRemovesThenAppends ==
    Acted("join")
    => LET a == last.uid
           j0 == Without(last.pre.joined, a)
           w0 == Without(last.pre.waitlist, a)
       IN  /\ IF Len(j0) < last.pre.capacity
              THEN /\ events[last.eid].joined = Append(j0, a)
                   /\ events[last.eid].waitlist = w0
              ELSE /\ events[last.eid].joined = j0
                   /\ events[last.eid].waitlist = Append(w0, a)
           /\ Without(events[last.eid].joined, a) = j0
           /\ Without(events[last.eid].waitlist, a) = w0
           /\ events[last.eid].capacity = last.pre.capacity
           /\ Notified(out) = <<>>

\* The head of a waitlist of two pressed join on a full event and stands
\* behind the other; nobody was promoted.
C8_Witness ==
    /\ Acted("join")
    /\ Len(last.pre.waitlist) = 2
    /\ last.pre.waitlist[1] = last.uid
    /\ events[last.eid].waitlist = <<last.pre.waitlist[2], last.uid>>
    /\ events[last.eid].joined = last.pre.joined

\* C9: a join pressed by an actor who is on the waitlist is decided by the
\* vacancy at the press, not by the place held: with len(joined) < capacity
\* the actor ends at the tail of joined and is told so; on a full event the
\* actor ends at the tail of the waitlist, behind every actor that stood
\* behind them.
C9_RejoinDecidedByVacancy ==
    (/\ Acted("join")
     /\ Has(last.pre.waitlist, last.uid))
    => LET a == last.uid
           others == Without(last.pre.waitlist, a)
       IN  IF Len(last.pre.joined) < last.pre.capacity
           THEN /\ events[last.eid].joined = Append(last.pre.joined, a)
                /\ events[last.eid].waitlist = others
                /\ Kinds(out, "reply") = <<Fx("reply", a, "confirmed")>>
           ELSE /\ events[last.eid].joined = last.pre.joined
                /\ events[last.eid].waitlist = Append(others, a)
                /\ Kinds(out, "reply") = <<Fx("reply", a, "waitlisted")>>

\* The second of two waiting actors pressed join while a place was free: that
\* actor is confirmed and the first still waits.
C9_Witness ==
    /\ Acted("join")
    /\ Len(last.pre.waitlist) = 2
    /\ last.pre.waitlist[2] = last.uid
    /\ Len(last.pre.joined) < last.pre.capacity
    /\ Confirmed(last.eid, last.uid)
    /\ events[last.eid].waitlist = <<last.pre.waitlist[1]>>

\* C10: a leave by an actor who is in neither list is answered as not present
\* and changes nothing: joined, waitlist and capacity stay, nobody is
\* promoted or notified, and the announcement is not updated.
C10_LeaveOfAbsentActor ==
    (/\ Acted("leave")
     /\ ~Has(last.pre.joined, last.uid)
     /\ ~Has(last.pre.waitlist, last.uid))
    => /\ RosterOf(events[last.eid]) = last.pre
       /\ out = <<Fx("alert", last.uid, "not_present")>>
       /\ Kinds(out, "announce") = <<>>
       /\ Notified(out) = <<>>

\* An actor in neither list pressed leave on a full event with an actor waiting.
C10_Witness ==
    /\ Acted("leave")
    /\ ~Has(last.pre.joined, last.uid)
    /\ ~Has(last.pre.waitlist, last.uid)
    /\ Len(last.pre.joined) = last.pre.capacity
    /\ last.pre.waitlist # <<>>
    /\ Kinds(out, "alert") # <<>>
\* C11: promotion runs to its end.  In every state, so after every join,
\* leave, capacity edit and removal, no event has a free place while an actor
\* waits: a non-empty waitlist implies len(joined) = capacity.
C11_NoVacancyWhileWaiting ==
    \A e \in DOMAIN events :
        events[e].waitlist # <<>> => Len(events[e].joined) = events[e].capacity

\* The capacity was raised by one with two actors waiting: the first was
\* promoted, the event is full again and the second still waits.
C11_Witness ==
    /\ Acted("capacity")
    /\ Len(last.pre.waitlist) = 2
    /\ last.arg = Len(last.pre.joined) + 1
    /\ Len(events[last.eid].joined) = events[last.eid].capacity
    /\ events[last.eid].waitlist = <<last.pre.waitlist[2]>>

\* C12: a remove_participant of an actor who is in joined promotes at most
\* one waiting actor: at most one actor is new in joined and at most one
\* promotion notice is sent.
C12_RemovePromotesAtMostOne ==
    (/\ Acted("remove")
     /\ Has(last.pre.joined, last.arg))
    => /\ Cardinality(Range(events[last.eid].joined) \ Range(last.pre.joined)) <= 1
       /\ Len(events[last.eid].waitlist) >= Len(last.pre.waitlist) - 1
       /\ Len(Notified(out)) <= 1

\* A confirmed actor was removed from a full event with two actors waiting:
\* the first was promoted, the second still waits.
C12_Witness ==
    /\ Acted("remove")
    /\ Has(last.pre.joined, last.arg)
    /\ Len(last.pre.waitlist) = 2
    /\ Confirmed(last.eid, last.pre.waitlist[1])
    /\ events[last.eid].waitlist = <<last.pre.waitlist[2]>>
    /\ Notified(out) = <<last.pre.waitlist[1]>>
\* C13: a capacity edit to a value <= 0, or to a text that is no integer, is
\* rejected and changes nothing: capacity, joined and waitlist of the event
\* stay, and only the corrective answer is sent, no announcement update; the
\* three ways to create reject such a capacity too, so every stored event has
\* capacity >= 1.
C13_BadCapacityRejected ==
    /\ \A e \in DOMAIN events : events[e].capacity >= 1
    /\ (last.op = "edit_rejected" /\ last.eid \in DOMAIN events)
       => /\ RosterOf(events[last.eid]) = last.pre
          /\ out \in {<<Fx("reply", last.uid, "bad_capacity")>>,
                      <<Fx("reply", last.uid, "need_number")>>}
          /\ edit_conv[last.uid] = "EDIT_NEW_VALUE"

\* A capacity that is no positive integer was typed for an event with a
\* confirmed actor, after a second event came out of the create conversation.
C13_Witness ==
    /\ last.op = "edit_rejected"
    /\ last.eid \in DOMAIN events
    /\ last.pre.joined # <<>>
    /\ out = <<Fx("reply", last.uid, "bad_capacity")>>
    /\ Cardinality(DOMAIN events) = 2
C15_UnauthorizedChangesNothing ==
    [][(/\ last'.op \notin {"join", "leave", "cancel", "start"}
        /\ last'.uid \notin ADMIN_IDS
        /\ ~(last'.eid \in DOMAIN events /\ events[last'.eid].creator_id = last'.uid))
       => /\ events' = events
          /\ event_counter' = event_counter
          /\ out' \in {<<>>, <<Fx("reply", last'.uid, "no_rights")>>,
                       <<Fx("reply", last'.uid, "not_found")>>}]_vars

\* A user off the allow-list asked to delete an event created by another
\* user off the allow-list: the request was refused, the event is stored as
\* it was.
C15_Witness ==
    /\ last.op = "delete_denied"
    /\ last.eid \in DOMAIN events
    /\ last.uid \notin ADMIN_IDS
    /\ events[last.eid].creator_id \notin ADMIN_IDS \cup {last.uid}
    /\ RosterOf(events[last.eid]) = last.pre
    /\ out = <<Fx("reply", last.uid, "no_rights")>>

\* C16 as stated: remove_participant is open to the allow-list and to the
\* creator of the event; a creator is never refused.
C16_CreatorMayRemove ==
    (last.op = "remove_denied" /\ last.eid \in DOMAIN events)
    => events[last.eid].creator_id # last.uid

\* C16: remove_participant is open to exactly the actors on the allow-list:
\* whoever is refused is off the list, whoever is served is on it, the
\* creator of the event like anyone else.
C16_OnlyAllowListRemoves ==
    /\ last.op = "remove_denied" => last.uid \notin ADMIN_IDS
    /\ last.op = "remove" => last.uid \in ADMIN_IDS

\* The creator of the stored event, off the allow-list, asked to remove a
\* participant and was refused.
C16_Witness ==
    /\ last.op = "remove_denied"
    /\ last.eid \in DOMAIN events
    /\ events[last.eid].creator_id = last.uid
    /\ out = <<Fx("reply", last.uid, "no_rights")>>
\* The edit of the announcement was attempted and failed.
AnnounceFailed == \E i \in DOMAIN out : out[i] = Fx("announce", last.eid, "failed")

\* The roster a join or leave of actor a, a removal of actor a, or a capacity
\* edit to n makes of the roster pre, spelled from the lists.
ExpectedRoster ==
    LET pre == last.pre
        a == IF last.op = "remove" THEN last.arg ELSE last.uid
        j0 == Without(pre.joined, a)
        w0 == Without(pre.waitlist, a)
        n == IF last.op = "capacity" THEN last.arg ELSE pre.capacity
        from_joined == IF last.op = "capacity" THEN pre.joined ELSE j0
        from_waitlist == IF last.op = "capacity" THEN pre.waitlist ELSE w0
        k == IF last.op = "capacity" \/ Has(pre.joined, a)
             THEN Min(n - Len(from_joined), Len(from_waitlist)) ELSE 0
    IN  IF last.op = "join"
        THEN IF Len(j0) < pre.capacity
             THEN [joined |-> Append(j0, a), waitlist |-> w0, capacity |-> n]
             ELSE [joined |-> j0, waitlist |-> Append(w0, a), capacity |-> n]
        ELSE IF k < 0
        THEN [joined |-> SubSeq(pre.joined, 1, n),
              waitlist |-> SubSeq(pre.joined, n + 1, Len(pre.joined)) \o pre.waitlist,
              capacity |-> n]
        ELSE [joined |-> from_joined \o SubSeq(from_waitlist, 1, k),
              waitlist |-> SubSeq(from_waitlist, k + 1, Len(from_waitlist)),
              capacity |-> n]

\* C17: a join, leave, capacity edit or removal whose edit of the announcement
\* fails is neither undone nor cut short: the stored roster is the result of
\* the operation, the store was written, and the handler ends with its
\* normal confirmation.
C17_FailedAnnouncementKeepsMutation ==
    (/\ \E op \in {"join", "leave", "capacity", "remove"} : Acted(op)
     /\ AnnounceFailed)
    => /\ RosterOf(events[last.eid]) = ExpectedRoster
       /\ \E i \in DOMAIN out : out[i] = Fx("put", last.eid, "ok")
       /\ out[Len(out)].kind = "reply"
       /\ out[Len(out)].text \in {"confirmed", "waitlisted", "left", "updated", "removed"}
       /\ \A i \in DOMAIN out : out[i].kind # "error_handler"

\* A confirmed actor left a full event with an actor waiting, and the edit of
\* the announcement failed: the waiting actor is confirmed, the leaver is
\* told so.
C17_Witness ==
    /\ Acted("leave")
    /\ AnnounceFailed
    /\ Has(last.pre.joined, last.uid)
    /\ last.pre.waitlist # <<>>
    /\ Confirmed(last.eid, Head(last.pre.waitlist))
    /\ ~Confirmed(last.eid, last.uid)
    /\ out[Len(out)] = Fx("reply", last.uid, "left")
\* A promotion notice was attempted and failed, in either way.
NoticeFailed == \E i \in DOMAIN out : out[i].kind = "notify" /\ out[i].text # "ok"

\* C18 as stated: a leave, capacity edit or removal in which a promotion
\* notice fails, in whatever way, keeps the promotion and goes on to the
\* store write, the edit of the announcement and the confirmation.
C18_FailedNoticeKeepsOperation ==
    (/\ \E op \in {"leave", "capacity", "remove"} : Acted(op)
     /\ NoticeFailed)
    => /\ RosterOf(events[last.eid]) = ExpectedRoster
       /\ \E i \in DOMAIN out : out[i] = Fx("put", last.eid, "ok")
       /\ events[last.eid].message_id # 0 => \E i \in DOMAIN out : out[i].kind = "announce"
       /\ out[Len(out)].kind = "reply"
       /\ \A i \in DOMAIN out : out[i].kind # "error_handler"
\* C19: event ids are never reused.  The counter never goes down and no
\* stored id exceeds it; every creation, by the quick command, the photo
\* caption or the conversation, whether its publication succeeds or fails,
\* takes the id counter + 1 and leaves the counter at that id, so the id is
\* greater than every id issued before it, deleted events included; a new
\* key of the store is always the id just issued.
C19_IdsNeverReused ==
    [][/\ event_counter' >= event_counter
       /\ \A d \in DOMAIN events : d <= event_counter
       /\ \A e \in DOMAIN events' \ DOMAIN events :
             e = event_counter' /\ e > event_counter
       /\ last'.op \in {"create", "create_photo", "create_steps"}
          => /\ last'.eid = event_counter + 1
             /\ event_counter' = last'.eid
             /\ last'.eid \notin DOMAIN events]_vars

\* The conversation created event 2 after id 1 had been issued and its event
\* deleted or never published: the new event did not take the free id 1.
C19_Witness ==
    /\ last.op = "create_steps"
    /\ last.eid = 2
    /\ event_counter = 2
    /\ DOMAIN events = {2}
\* C20: a delete by an authorized actor of a stored event always takes the
\* event out of the store, also when the announcement could not be
\* retracted; every other event and the id counter are left as they were,
\* and the actor is told that the event is deleted.
C20_DeleteAlwaysRemoves ==
    [][(last'.op = "delete" /\ last'.eid \in DOMAIN events)
       => /\ is_admin(last'.uid, TRUE, events[last'.eid])
          /\ events' = [e \in DOMAIN events \ {last'.eid} |-> events[e]]
          /\ event_counter' = event_counter
          /\ out'[Len(out')] = Fx("reply", last'.uid, "deleted")]_vars

\* Event 1 was deleted although its announcement could not be retracted;
\* event 2, with a confirmed actor, is still stored, and the counter stands.
C20_Witness ==
    /\ last.op = "delete"
    /\ last.eid = 1
    /\ last.pre # NoRoster
    /\ out[1] = Fx("retract", 1, "failed")
    /\ DOMAIN events = {2}
    /\ events[2].joined # <<>>
    /\ event_counter = 2
\* C21: the export of an event writes a row for every entry of joined, in
\* the order of joined, tagged "joined", then a row for every entry of
\* waitlist, in the order of waitlist, tagged "waitlist"; every participant
\* has exactly one row, and the store is left as it was.
C21_ExportListsRosterInOrder ==
    [][(last'.op = "export" /\ last'.eid \in DOMAIN events)
       => LET event == events[last'.eid]
              rows == Kinds(out', "row")
              nj == Len(event.joined)
          IN  /\ Len(rows) = nj + Len(event.waitlist)
              /\ \A i \in 1..nj : rows[i] = Fx("row", event.joined[i], "joined")
              /\ \A i \in 1..Len(event.waitlist) :
                    rows[nj + i] = Fx("row", event.waitlist[i], "waitlist")
              /\ \A u \in Range(event.joined) \cup Range(event.waitlist) :
                    Cardinality({i \in 1..Len(rows) : rows[i].arg = u}) = 1
              /\ SubSeq(out', 1, Len(rows)) = rows
              /\ events' = events
              /\ event_counter' = event_counter]_vars

\* An event with two confirmed actors and one waiting was exported: three
\* rows, the waiting actor last.
C21_Witness ==
    /\ Acted("export")
    /\ Len(last.pre.joined) = 2
    /\ Len(last.pre.waitlist) = 1
    /\ Len(Kinds(out, "row")) = 3
    /\ Kinds(out, "row")[3] = Fx("row", last.pre.waitlist[1], "waitlist")
    /\ RosterOf(events[last.eid]) = last.pre
\* The edit of the announcement was made, and the keyboard it carried.
Announced == \E i \in DOMAIN out : out[i] = Fx("announce", last.eid, "ok")

ShownButton == Kinds(out, "button")[1]

\* C22: the join control rendered with the announcement agrees with the
\* roster the handler left: closed when capacity <= 0, "join the waitlist"
\* with len(waitlist) when len(joined) >= capacity > 0, "join" with
\* len(joined) of capacity otherwise; it reads "join" exactly when the join
\* of any actor who is not in the event would be confirmed.
C22_JoinControlAgreesWithRoster ==
    (last.eid \in DOMAIN events /\ Announced)
    => LET e == events[last.eid]
           outsiders == Users \ (Range(e.joined) \cup Range(e.waitlist))
       IN  /\ Len(Kinds(out, "button")) = 1
           /\ e.capacity <= 0 => ShownButton = Fx("button", 0, "closed")
           /\ (e.capacity > 0 /\ Len(e.joined) >= e.capacity)
              => ShownButton = Fx("button", Len(e.waitlist), "join_waitlist")
           /\ (e.capacity > 0 /\ Len(e.joined) < e.capacity)
              => /\ ShownButton = Fx("button", Len(e.joined), "join")
                 /\ Kinds(out, "button_of") = <<Fx("button_of", e.capacity, "join")>>
           /\ \A uid \in outsiders :
                 ShownButton.text = "join"
                 <=> Has(ButtonResult(e, last.eid, "join", uid, <<>>, TRUE).event.joined, uid)

\* A press filled the last place of an event with an actor waiting: the
\* control reads "join the waitlist (1)" and an outsider is left to whom it
\* applies.
C22_Witness ==
    /\ last.op = "join"
    /\ last.eid \in DOMAIN events
    /\ Announced
    /\ Len(events[last.eid].joined) = events[last.eid].capacity
    /\ Len(last.pre.joined) < last.pre.capacity
    /\ ShownButton = Fx("button", 1, "join_waitlist")
    /\ Users \ (Range(events[last.eid].joined) \cup Range(events[last.eid].waitlist)) # {}
\* C29: no step changes the creator_id or the id of a stored event, the id
\* being the key it is stored under; an edit of the title, date, location,
\* description or photo leaves capacity, joined and waitlist of the event as
\* they were and sends no promotion notice.
C29_EditsKeepIdentityAndRoster ==
    [][/\ \A e \in DOMAIN events \cap DOMAIN events' :
             /\ events'[e].creator_id = events[e].creator_id
             /\ events'[e].id = events[e].id
       /\ \A e \in DOMAIN events' : events'[e].id = e
       /\ (last'.op = "edit_field" /\ last'.eid \in DOMAIN events)
          => /\ last'.arg \in {1, 2, 4, 5, 6}
             /\ last'.eid \in DOMAIN events'
             /\ RosterOf(events'[last'.eid]) = RosterOf(events[last'.eid])
             /\ Kinds(out', "notify") = <<>>]_vars

\* The title of an event with a full joined list and an actor waiting was
\* edited: the title is the new one, the lists and the capacity are the old.
C29_Witness ==
    /\ Acted("edit_field")
    /\ last.arg = 1
    /\ events[last.eid].title = "edited"
    /\ last.pre.waitlist # <<>>
    /\ Len(last.pre.joined) = last.pre.capacity
    /\ RosterOf(events[last.eid]) = last.pre
    /\ events[last.eid].creator_id \in ADMIN_IDS
\* C30: every stored event has the message_id of its announcement, which no
\* step changes afterwards; a create whose publication fails takes an id and
\* stores nothing.
C30_StoredEventsHaveAnnouncement ==
    [][/\ \A e \in DOMAIN events' :
             /\ events'[e].message_id \in ChannelMessageIds
             /\ e \in DOMAIN events => events'[e].message_id = events[e].message_id
       /\ (/\ last'.op \in {"create", "create_photo", "create_steps"}
           /\ out'[1] = Fx("publish", last'.eid, "failed"))
          => /\ events' = events
             /\ event_counter' = event_counter + 1
             /\ last'.eid = event_counter']_vars

\* The publication of the conversation's event failed after an event had been
\* stored: id 2 is consumed, only event 1 is stored, with its announcement.
C30_Witness ==
    /\ last.op = "create_steps"
    /\ last.eid = 2
    /\ out[1] = Fx("publish", 2, "failed")
    /\ event_counter = 2
    /\ DOMAIN events = {1}
    /\ events[1].message_id \in ChannelMessageIds
\* C25 as stated: in a join, leave, capacity edit or removal that changes the
\* roster, the write of the store comes before every promotion notice and
\* before the edit of the announcement.
C25_PutBeforeNoticesAndAnnouncement ==
    (\E op \in {"join", "leave", "capacity", "remove"} : Acted(op))
    => \A j \in DOMAIN out :
          out[j].kind \in {"notify", "announce"}
          => \E i \in 1..(j - 1) : out[i] = Fx("put", last.eid, "ok")

\* The actors a promotion run moved from the waitlist to joined, in the order
\* they stand in joined; an actor who pressed join is placed, not promoted.
Promoted ==
    SelectSeq(events[last.eid].joined,
              LAMBDA u : Has(last.pre.waitlist, u) /\ ~(last.op = "join" /\ u = last.uid))

\* C26: the promotion notices of a handler are, in order, addressed to
\* exactly the actors it moved from the waitlist to joined, one notice for
\* each, whatever the sends do; no other actor is sent a notice.
C26_NoticesMatchPromotions ==
    (\E op \in {"join", "leave", "capacity", "remove"} : Acted(op))
    => /\ Notified(out) = Promoted
       /\ \A i \in DOMAIN out : out[i].kind = "notify" => ~Has(last.pre.joined, out[i].arg)

\* The capacity was raised by two with two actors waiting: two notices, to
\* the first and then to the second of them, the first of which failed.
C26_Witness ==
    /\ Acted("capacity")
    /\ Len(last.pre.waitlist) = 2
    /\ Notified(out) = last.pre.waitlist
    /\ Kinds(out, "notify")[1].text = "forbidden"
    /\ Confirmed(last.eid, last.pre.waitlist[1])
    /\ Confirmed(last.eid, last.pre.waitlist[2])

\* C27: a leave or a removal of an actor who is on the waitlist takes out
\* exactly that actor: joined and the capacity stay, the others on the
\* waitlist keep their order, nobody is promoted or notified, even when
\* joined has a vacancy.
C27_WaitlistRemovalPromotesNobody ==
    (/\ Acted("leave") \/ Acted("remove")
     /\ Has(last.pre.waitlist, IF last.op = "remove" THEN last.arg ELSE last.uid))
    => LET a == IF last.op = "remove" THEN last.arg ELSE last.uid
       IN  /\ events[last.eid].joined = last.pre.joined
           /\ events[last.eid].waitlist = Without(last.pre.waitlist, a)
           /\ Len(events[last.eid].waitlist) = Len(last.pre.waitlist) - 1
           /\ events[last.eid].capacity = last.pre.capacity
           /\ Notified(out) = <<>>

\* The first of two waiting actors was removed by the admin from an event
\* with a vacancy: the second still waits, joined is as it was.
C27_Witness ==
    /\ Acted("remove")
    /\ Len(last.pre.waitlist) = 2
    /\ last.arg = last.pre.waitlist[1]
    /\ Len(last.pre.joined) < last.pre.capacity
    /\ events[last.eid].waitlist = <<last.pre.waitlist[2]>>
    /\ events[last.eid].joined = last.pre.joined

\* The waitlist at the entry of the promotion loop of the last handler.
WaitlistAtLoopEntry ==
    IF last.op = "capacity" THEN last.pre.waitlist
    ELSE Without(last.pre.waitlist, IF last.op = "remove" THEN last.arg ELSE last.uid)

\* C28: the promotion loop of a leave, a removal or a capacity edit makes at
\* most as many iterations (one notice each) as the waitlist had entries when
\* the loop was entered, each taking one entry off the waitlist, and leaves
\* joined full or the waitlist empty.
C28_PromotionLoopBounded ==
    (\E op \in {"leave", "capacity", "remove"} : Acted(op))
    => /\ Len(Kinds(out, "notify")) <= Len(WaitlistAtLoopEntry)
       /\ (last.op = "capacity" => last.arg >= Len(last.pre.joined))
          => Len(events[last.eid].waitlist)
                = Len(WaitlistAtLoopEntry) - Len(Kinds(out, "notify"))
       /\ \/ Len(events[last.eid].joined) >= events[last.eid].capacity
          \/ events[last.eid].waitlist = <<>>

\* The capacity was raised by two over one waiting actor: one iteration, the
\* waitlist empty, joined not full.
C28_Witness ==
    /\ Acted("capacity")
    /\ Len(last.pre.waitlist) = 1
    /\ last.arg = Len(last.pre.joined) + 2
    /\ Len(Kinds(out, "notify")) = 1
    /\ events[last.eid].waitlist = <<>>
    /\ Len(events[last.eid].joined) < events[last.eid].capacity
\* A handler that has read its event and not yet put it back: it is suspended
\* on a promotion notice or, in edit_new_value, on the edit of the
\* announcement, which comes before the put there.
BetweenReadAndPut(t) == t.pc = "notice" \/ (t.h = "edit" /\ t.pc = "announce")

\* C23: the actions on an event are serialized: while a handler is between
\* its read of the event and its put, suspended on the send of a promotion
\* notice included, every step taken is a step of that handler; no other
\* update is taken and no other handler moves.
C23_ActionsOnEventSerialized ==
    [][\A u \in Users :
          BetweenReadAndPut(tasks[u])
          => /\ tasks'[u] # tasks[u]
             /\ \A v \in Users \ {u} : tasks'[v] = tasks[v]]_vars

\* The capacity was raised and the edit is suspended on its second notice.
C23_Witness ==
    \E u \in Users :
        /\ tasks[u].h = "edit"
        /\ tasks[u].pc = "notice"
        /\ Len(tasks[u].seen) = 1
        /\ Len(events[tasks[u].eid].waitlist) = Len(tasks[u].pre.waitlist) - 2
        /\ \A v \in Users \ {u} : tasks[v] = NoTask

\* The event as the operation of handler t leaves it: the whole operation
\* applied at once to the event it read, with the outcomes its notices had.
LeftBy(t) ==
    IF t.h = "button"
    THEN ButtonOutcome(t.pre, t.eid, t.action, t.uid, t.seen, TRUE).event
    ELSE IF t.h = "remove"
    THEN RemoveResult(t.pre, t.eid, t.target, t.uid, t.seen, TRUE).event
    ELSE CapacityResult(t.pre, t.eid, t.capacity, t.uid, t.seen, TRUE).event

\* The text and the keyboard the last edit of the announcement carried.
ShownRendering == SelectSeq(out, LAMBDA fx : fx.kind \in {"text", "button", "button_of"})

\* C24: the edit of the announcement renders the event exactly as the
\* operation left it: text and keyboard are those of the event the handler
\* read with this operation alone applied, which is also the stored event
\* at that moment; once the edit is made, it shows the stored event.
C24_AnnouncementRendersOwnResult ==
    /\ \A u \in Users :
          tasks[u].pc = "announce"
          => /\ events[tasks[u].eid] = LeftBy(tasks[u])
             /\ tasks[u].rendered = Rendering(tasks[u].eid, LeftBy(tasks[u]))
    /\ (/\ \A u \in Users : tasks[u] = NoTask
        /\ last.op \in {"join", "leave", "remove", "capacity"}
        /\ Announced)
       => ShownRendering = Rendering(last.eid, events[last.eid])

\* A leave promoted a waiter and the announcement was edited: it lists the
\* promoted actor as joined and the leaver nowhere.
C24_Witness ==
    /\ \A u \in Users : tasks[u] = NoTask
    /\ last.op = "leave"
    /\ Announced
    /\ Len(Kinds(out, "notify")) = 1
    /\ Fx("text", Kinds(out, "notify")[1].arg, "joined") \in Range(ShownRendering)
    /\ Fx("text", last.uid, "joined") \notin Range(ShownRendering)

\* The actor ids of a roster, joined and waitlist together.
Members(r) == Range(r.joined) \cup Range(r.waitlist)

\* C31: capacity edits and promotions conserve the participants: an accepted
\* capacity edit, up or down, leaves the set of ids in joined and waitlist as
\* it was; a leave or a removal of actor a leaves that set without a and
\* nothing else; after each, no id is in the two lists twice, so the overflow
\* and the promotions neither drop nor duplicate anybody.
C31_ParticipantsConserved ==
    /\ Acted("capacity")
       => /\ Members(events[last.eid]) = Members(last.pre)
          /\ Len(events[last.eid].joined) + Len(events[last.eid].waitlist)
               = Len(last.pre.joined) + Len(last.pre.waitlist)
    /\ (Acted("leave") \/ Acted("remove"))
       => LET a == IF last.op = "remove" THEN last.arg ELSE last.uid
          IN  /\ Members(events[last.eid]) = Members(last.pre) \ {a}
              /\ Len(events[last.eid].joined) + Len(events[last.eid].waitlist)
                   = Cardinality(Members(last.pre) \ {a})
    /\ (Acted("capacity") \/ Acted("leave") \/ Acted("remove"))
       => NoRepeat(events[last.eid].joined \o events[last.eid].waitlist)

\* The capacity was lowered to one below two confirmed actors while a third
\* was waiting: all three are still in the event, two of them waiting.
C31_Witness ==
    /\ Acted("capacity")
    /\ last.arg = 1
    /\ Len(last.pre.joined) = 2
    /\ Len(last.pre.waitlist) = 1
    /\ Len(events[last.eid].waitlist) = 2
    /\ Cardinality(Members(events[last.eid])) = 3

\* C32: the capacity round trip: when the capacity of an event is lowered
\* from c to n, 1 <= n < c, and the next handler that touches an event is the
\* edit of the same event back to c, joined and waitlist are again what they
\* were before the lowering, the same actors in the same order.
C32_CapacityRoundTrip ==
    trip.back
    => /\ trip.eid \in DOMAIN events
       /\ 1 <= trip.n /\ trip.n < trip.pre.capacity
       /\ RosterOf(events[trip.eid]) = trip.pre

\* A trip that moved somebody: two actors were confirmed and a third waited,
\* the capacity went to 1 and back to 2.
C32_Witness ==
    /\ trip.back
    /\ trip.n = 1
    /\ Len(trip.pre.joined) = 2
    /\ Len(trip.pre.waitlist) = 1
    /\ Acted("capacity")
    /\ Len(Notified(out)) = 1

\* C33: a deleted event stays deleted: an id that was issued and is not in
\* the store is not in the store after any step either; no handler that was
\* taken before or after the delete, whatever await it resumes from, puts
\* the event back.
C33_DeletedStaysDeleted ==
    [][\A e \in EventIds :
          (e <= event_counter /\ e \notin DOMAIN events) => e \notin DOMAIN events']_vars

\* An event with a waiting actor was deleted and a press of its button has
\* been taken since: the handler is about to look the event up.
C33_Witness ==
    /\ last.op = "delete"
    /\ last.pre.waitlist # <<>>
    /\ last.eid \notin DOMAIN events
    /\ last.eid <= event_counter
    /\ \E u \in Users : tasks[u].pc = "answer" /\ tasks[u].eid = last.eid

====
